---- MODULE Spec2Model ----
(***************************************************************************)
(* The client SDK of the archive's web frontend: token storage, the auth   *)
(* session manager (AuthClient / AuthNamespace) and the HTTP pipeline      *)
(* (HttpClient), as one state machine.                                     *)
(*                                                                         *)
(* JavaScript runs each task to completion: an action of this module is    *)
(* one task (a synchronous call, or the continuation that a resolved       *)
(* network call or an expired timer starts) together with the promise      *)
(* continuations that task resolves.  The network and the clock are the    *)
(* environment: they choose the outcome of every request and when time     *)
(* passes.                                                                 *)
(***************************************************************************)
EXTENDS Integers, Sequences, FiniteSets, Bags, TLC

\* ------------------------------------------------------------------ bounds

\* The clock advances only while now < MaxNow.
MaxNow == 200000
\* AuthClient.refresh() calls that may be awaiting their response at once.
MaxRefreshCalls == 2
\* Calls the application makes of handleCallback, refreshToken, logout and
\* fetch in the life of a client.
MaxCalls == 3
\* Depositions the mock namespaces create, all instances together.
MaxCreates == 3
\* Files a deposition of the mock holds.
MaxFiles == 2

\* -------------------------------------------------------- program constants

\* expiresAt = Date.now() + expiresIn * 1000
MsPerSecond == 1000
\* (this.config.refreshThreshold || 300)
DefaultRefreshThreshold == 300
\* hashContent.slice(5): the length of 'auth='
AuthPrefixLen == 5
\* response.status === 401
Unauthorized == 401

\* ------------------------------------------------------------ JS values

\* null in a string-typed position (no string of the model equals it)
NullStr == "<null>"
\* null / undefined in an object-typed position
NULL == [isNull |-> TRUE]

\* !s for a string-or-null s
Falsy(s) == s = NullStr \/ s = ""

\* s.startsWith(p)
StartsWith(s, p) == Len(s) >= Len(p) /\ SubSeq(s, 1, Len(p)) = p

\* s.slice(n), 0 <= n
Slice(s, n) == IF n >= Len(s) THEN "" ELSE SubSeq(s, n + 1, Len(s))

\* s.slice(0, n), 0 <= n <= s.length
Prefix(s, n) == IF n = 0 THEN "" ELSE SubSeq(s, 1, n)

\* s.indexOf(c) + 1 for a one-character c: 0 when c does not occur
RECURSIVE IndexOf(_, _)
IndexOf(s, c) ==
  IF s = "" THEN 0
  ELSE IF Head(s) = c THEN 1
  ELSE LET r == IndexOf(Tail(s), c) IN IF r = 0 THEN 0 ELSE r + 1

\* ------------------------------------------------- URLSearchParams, parseInt

\* The character a %XX escape stands for (the escapes the fragments use).
PercentChar(h) ==
  CASE h = "20" -> " "
    [] h = "2B" -> "+"
    [] h = "26" -> "&"
    [] h = "3D" -> "="
    [] OTHER -> "%" \o h

\* application/x-www-form-urlencoded decoding: '+' is a space, %XX a byte.
RECURSIVE Decode(_)
Decode(s) ==
  IF s = "" THEN ""
  ELSE IF Head(s) = "+" THEN " " \o Decode(Tail(s))
  ELSE IF Head(s) = "%" /\ Len(s) >= 3
       THEN PercentChar(SubSeq(s, 2, 3)) \o Decode(Slice(s, 3))
  ELSE Head(s) \o Decode(Tail(s))

\* new URLSearchParams(qs).get(key): the value of the first pair named key,
\* null when there is none.  Pairs are separated by '&', name and value by
\* the first '='; empty pairs are skipped.
RECURSIVE SearchParamsGet(_, _)
SearchParamsGet(qs, key) ==
  IF qs = "" THEN NullStr
  ELSE LET amp == IndexOf(qs, "&")
           piece == IF amp = 0 THEN qs ELSE Prefix(qs, amp - 1)
           rest == IF amp = 0 THEN "" ELSE Slice(qs, amp)
           eq == IndexOf(piece, "=")
           name == Decode(IF eq = 0 THEN piece ELSE Prefix(piece, eq - 1))
           value == Decode(IF eq = 0 THEN "" ELSE Slice(piece, eq))
       IN IF piece # "" /\ name = key THEN value
          ELSE SearchParamsGet(rest, key)

IsDigit(c) == c \in {"0", "1", "2", "3", "4", "5", "6", "7", "8", "9"}

DigitValue(c) ==
  CASE c = "0" -> 0 [] c = "1" -> 1 [] c = "2" -> 2 [] c = "3" -> 3
    [] c = "4" -> 4 [] c = "5" -> 5 [] c = "6" -> 6 [] c = "7" -> 7
    [] c = "8" -> 8 [] c = "9" -> 9

\* The value of the longest prefix of s made of decimal digits, after acc.
RECURSIVE ParseDigits(_, _)
ParseDigits(s, acc) ==
  IF s = "" \/ ~IsDigit(Head(s)) THEN acc
  ELSE ParseDigits(Tail(s), 10 * acc + DigitValue(Head(s)))

\* parseInt(s, 10) for an s that begins with a decimal digit (the numerals
\* of the fragments): the digits up to the first other character.
ParseInt(s) == ParseDigits(s, 0)

\* ---------------------------------------------------- parseAuthCallback

\* !accessToken || !refreshToken || !expiresIn || !userId || !externalId
\* Variant: the check of line 68 without external_id
MissingRequiredButExternalId(accessToken, refreshToken, expiresIn, userId, externalId) ==
  Falsy(accessToken) \/ Falsy(refreshToken) \/ Falsy(expiresIn) \/ Falsy(userId)

MissingRequired(accessToken, refreshToken, expiresIn, userId, externalId) ==
  Falsy(accessToken) \/ Falsy(refreshToken) \/ Falsy(expiresIn)
    \/ Falsy(userId) \/ Falsy(externalId)

\* parseAuthCallback(hash): AuthCallbackParams, or NULL
parseAuthCallback(hash) ==
  LET hashContent == IF StartsWith(hash, "#") THEN Slice(hash, 1) ELSE hash
  IN IF ~StartsWith(hashContent, "auth=") THEN NULL
     ELSE LET paramsStr == Slice(hashContent, AuthPrefixLen)
              accessToken == SearchParamsGet(paramsStr, "access_token")
              refreshToken == SearchParamsGet(paramsStr, "refresh_token")
              tokenType == SearchParamsGet(paramsStr, "token_type")
              expiresIn == SearchParamsGet(paramsStr, "expires_in")
              userId == SearchParamsGet(paramsStr, "user_id")
              displayName == SearchParamsGet(paramsStr, "display_name")
              externalId == SearchParamsGet(paramsStr, "external_id")
          IN IF MissingRequired(accessToken, refreshToken, expiresIn, userId, externalId)
             THEN NULL
             ELSE [accessToken |-> accessToken,
                   refreshToken |-> refreshToken,
                   tokenType |-> IF Falsy(tokenType) THEN "Bearer" ELSE tokenType,
                   expiresIn |-> ParseInt(expiresIn),
                   userId |-> userId,
                   displayName |-> IF Falsy(displayName) THEN "" ELSE displayName,
                   externalId |-> externalId]

\* --------------------------------------------------------------- storage

\* What localStorage holds under STORAGE_KEY is a JSON text.  JSON.stringify
\* of a session made of strings, numbers and nulls is the text of that very
\* document, and JSON.parse gives the document back; a text that is no JSON
\* makes JSON.parse throw.
Malformed == [malformed |-> TRUE]

\* A number that is NaN (parseInt of a text that is no numeral), and the null
\* that JSON.stringify writes in its place: values no expiresAt of a token
\* pair with a numeral expires_in equals.
NaN == -1
JsonNullNumber == -2

\* Variant: set() that keeps an item already there
LocalSetOnce(hasWindow, st, a) ==
  IF ~hasWindow \/ st.item # [isNull |-> TRUE] THEN st
  ELSE [st EXCEPT !.item = [text |-> a]]

JsonStringify(a) ==
  [text |-> IF a.tokens # NULL /\ a.tokens.expiresAt = NaN
            THEN [a EXCEPT !.tokens.expiresAt = JsonNullNumber]
            ELSE a]

\* JSON.parse(item), NULL standing for the SyntaxError it throws
JsonParse(item) == IF item.text = Malformed THEN NULL ELSE item.text

\* stored?.tokens?.accessToken, stored?.tokens?.refreshToken, stored?.user?.id
AccessTokenOf(a) ==
  IF a = NULL THEN NullStr ELSE IF a.tokens = NULL THEN NullStr ELSE a.tokens.accessToken

RefreshTokenOf(a) ==
  IF a = NULL THEN NullStr ELSE IF a.tokens = NULL THEN NullStr ELSE a.tokens.refreshToken

UserIdOf(a) ==
  IF a = NULL THEN NullStr ELSE IF a.user = NULL THEN NullStr ELSE a.user.id

\* MemoryTokenStorage: the field auth
MemoryGet(st) == st.auth

MemorySet(st, a) == [st EXCEPT !.auth = a]

MemoryClear(st) == [st EXCEPT !.auth = NULL]

\* LocalTokenStorage.get(): nothing outside a browser, nothing for a missing
\* or unparseable item, nothing for a record without its required fields
LocalGet(hasWindow, st) ==
  IF ~hasWindow THEN NULL
  ELSE IF st.item = NULL THEN NULL
  ELSE LET a == JsonParse(st.item)
       IN IF a = NULL THEN NULL
          ELSE IF Falsy(AccessTokenOf(a)) \/ Falsy(RefreshTokenOf(a)) \/ Falsy(UserIdOf(a))
               THEN NULL
               ELSE a

LocalSet(hasWindow, st, a) ==
  IF ~hasWindow THEN st ELSE [st EXCEPT !.item = JsonStringify(a)]

LocalClear(hasWindow, st) ==
  IF ~hasWindow THEN st ELSE [st EXCEPT !.item = NULL]

\* TokenStorage, over the implementation the client was built with
StorageGet(e, st) ==
  IF e.kind = "memory" THEN MemoryGet(st) ELSE LocalGet(e.hasWindow, st)

StorageSet(e, st, a) ==
  IF e.kind = "memory" THEN MemorySet(st, a) ELSE LocalSet(e.hasWindow, st, a)

StorageClear(e, st) ==
  IF e.kind = "memory" THEN MemoryClear(st) ELSE LocalClear(e.hasWindow, st)

\* ------------------------------------------------------ auto-refresh timer

\* The timer state: handle is AuthClient.refreshTimer (0 for null), pending
\* the timeouts the event loop still holds, each [id, fireAt].
NoTimers == [handle |-> 0, pending |-> {}]

\* setTimeout returns an id no earlier timeout had; the model reuses the ids
\* of timeouts that are gone and that no handle names any more.
FreshTimerId(tm) ==
  CHOOSE i \in 1..(Cardinality(tm.pending) + 2) :
    /\ i # tm.handle
    /\ \A t \in tm.pending : t.id # i
    /\ \A j \in 1..(i - 1) : j = tm.handle \/ \E t \in tm.pending : t.id = j

\* cancelAutoRefresh()
cancelAutoRefresh(tm) ==
  IF tm.handle # 0
  THEN [handle |-> 0, pending |-> {t \in tm.pending : t.id # tm.handle}]
  ELSE tm

\* (this.config.refreshThreshold || 300) * 1000
ThresholdMs(cfg) ==
  (IF cfg.refreshThreshold = 0 THEN DefaultRefreshThreshold ELSE cfg.refreshThreshold)
    * MsPerSecond

\* Variant: setupAutoRefresh without the cancelAutoRefresh of its first line
setupAutoRefreshKeeping(tm, cfg, tokens, t) ==
  LET timeUntilRefresh == tokens.expiresAt - t - ThresholdMs(cfg)
      id == FreshTimerId(tm)
  IN IF timeUntilRefresh > 0
     THEN [handle |-> id,
           pending |-> tm.pending \cup {[id |-> id, fireAt |-> t + timeUntilRefresh]}]
     ELSE tm

\* setupAutoRefresh(tokens) at time t
setupAutoRefresh(tm, cfg, tokens, t) ==
  LET cancelled == cancelAutoRefresh(tm)
      timeUntilRefresh == tokens.expiresAt - t - ThresholdMs(cfg)
      id == FreshTimerId(cancelled)
  IN IF timeUntilRefresh > 0
     THEN [handle |-> id,
           pending |-> cancelled.pending \cup {[id |-> id, fireAt |-> t + timeUntilRefresh]}]
     ELSE cancelled

\* if (this.config.autoRefresh !== false) this.setupAutoRefresh(tokens)
MaybeSetupAutoRefresh(tm, cfg, tokens, t) ==
  IF cfg.autoRefresh # FALSE THEN setupAutoRefresh(tm, cfg, tokens, t) ELSE tm

\* --------------------------------------------------------- AuthClient, pure

\* Variant: expires_in taken as milliseconds
CallbackSessionSeconds(params, t) ==
  [tokens |-> [accessToken |-> params.accessToken,
               refreshToken |-> params.refreshToken,
               expiresAt |-> t + params.expiresIn],
   user |-> [id |-> params.userId,
             displayName |-> IF Falsy(params.displayName) THEN NullStr
                             ELSE params.displayName,
             externalId |-> params.externalId]]

\* AuthClient.handleCallback(params) at time t: the session it builds
CallbackSession(params, t) ==
  [tokens |-> [accessToken |-> params.accessToken,
               refreshToken |-> params.refreshToken,
               expiresAt |-> t + params.expiresIn * MsPerSecond],
   user |-> [id |-> params.userId,
             displayName |-> IF Falsy(params.displayName) THEN NullStr
                             ELSE params.displayName,
             externalId |-> params.externalId]]

\* Variant: tokens still good at the very time they expire
ExpiredStrict(a, t) == a.tokens.expiresAt < t

\* stored.tokens.expiresAt <= Date.now()
Expired(a, t) == a.tokens.expiresAt <= t

\* AuthClient.getStoredAuth() at time t
getStoredAuth(e, st, t) ==
  LET stored == StorageGet(e, st)
  IN IF stored = NULL THEN NULL
     ELSE IF Expired(stored, t) THEN NULL
     ELSE stored

\* Variant: getStoredAuth() evicting the expired session
StorageAfterGetStoredAuthEvicts(e, st, t) ==
  IF StorageGet(e, st) # NULL /\ StorageGet(e, st).tokens.expiresAt <= t
  THEN StorageClear(e, st) ELSE st

\* What getStoredAuth() leaves in storage (it writes nothing)
StorageAfterGetStoredAuth(e, st, t) == st

\* AuthNamespace.isAuthenticated() at time t
isAuthenticated(e, st, t) ==
  LET a == getStoredAuth(e, st, t)
  IN a # NULL /\ a.tokens.expiresAt > t

\* Variant: expires_in of the response taken as milliseconds
RefreshedTokensSeconds(data, t) ==
  [accessToken |-> data.access_token,
   refreshToken |-> data.refresh_token,
   expiresAt |-> t + data.expires_in]

\* refresh(), after a 2xx response whose body is data, received at time t:
\* the new token pair
RefreshedTokens(data, t) ==
  [accessToken |-> data.access_token,
   refreshToken |-> data.refresh_token,
   expiresAt |-> t + data.expires_in * MsPerSecond]

\* Variant: the tokens written without the user
RefreshedSessionTokensOnly(stored, data, t) ==
  [tokens |-> RefreshedTokens(data, t), user |-> NULL]

\* refresh(), the statement of line 159: the session written on success
RefreshedSession(stored, data, t) ==
  [tokens |-> RefreshedTokens(data, t), user |-> stored.user]

\* ------------------------------------------------------ the environment

\* The client is built over in-memory storage, or over localStorage inside
\* or outside a browser.
Environments ==
  {[kind |-> "memory", hasWindow |-> TRUE],
   [kind |-> "local", hasWindow |-> TRUE],
   [kind |-> "local", hasWindow |-> FALSE]}

\* SDKConfig: AuthNamespace fixes autoRefresh: true, refreshThreshold: 300;
\* OSAClient takes both from its options.
Configs ==
  {[autoRefresh |-> TRUE, refreshThreshold |-> DefaultRefreshThreshold],
   [autoRefresh |-> FALSE, refreshThreshold |-> DefaultRefreshThreshold]}

\* One field of a callback fragment: left out, given empty, or given.
Piece(key, mode, value) ==
  IF mode = "absent" THEN ""
  ELSE key \o "=" \o (IF mode = "empty" THEN "" ELSE value) \o "&"

\* The fragment that carries the five required fields in the given modes.
FragmentOf(m) ==
  "#auth=" \o Piece("access_token", m[1], "A9") \o Piece("refresh_token", m[2], "R9")
    \o Piece("expires_in", m[3], "400") \o Piece("user_id", m[4], "U2")
    \o Piece("external_id", m[5], "0000-0002") \o "token_type=Bearer"

AllGiven == <<"given", "given", "given", "given", "given">>

\* The redirect fragments the browser hands to handleCallback in the life of
\* a client: two logins (with '#', token_type and a URL-encoded display
\* name; without them) and a fragment that lacks a field.
Fragments ==
  {"#auth=access_token=A1&refresh_token=R1&token_type=Bearer&expires_in=3600"
     \o "&user_id=U1&display_name=Ada+L%2B&external_id=0000-0001",
   "auth=external_id=0000-0002&user_id=U2&expires_in=400&refresh_token=R2&access_token=A2",
   FragmentOf([AllGiven EXCEPT ![5] = "absent"])}

\* Every shape of fragment: the logins above, a login whose display name is
\* empty, every fragment with one required field left out or empty, and
\* fragments that are no auth callback.
AllFragments ==
  Fragments
  \cup {"auth=access_token=A1&refresh_token=R1&expires_in=100&user_id=U1"
          \o "&display_name=&external_id=0000-0001",
        "#token=A1&expires_in=3600",
        "#",
        ""}
  \cup {FragmentOf([AllGiven EXCEPT ![i] = mode]) :
          i \in 1..5, mode \in {"given", "absent", "empty"}}

\* parseAuthCallback over the fragments, computed once
Parsed == [hash \in AllFragments |-> parseAuthCallback(hash)]

\* The request the application sends through HttpClient.fetch.
Requests ==
  {[path |-> "/depositions", method |-> "POST", body |-> "{\"convention_srn\":\"c\"}"]}

\* What the network gives for a request: a response with a status, or a
\* rejection (a transport error).
Rejected == [rejected |-> TRUE]

Response(n, status) == [rejected |-> FALSE, n |-> n, status |-> status]

Statuses == {200, Unauthorized, 500}

\* response.ok
Ok(resp) == resp.status >= 200 /\ resp.status <= 299

\* The bodies POST /auth/refresh answers a 2xx with.
TokenResponses ==
  {[access_token |-> "A3", refresh_token |-> "R3", token_type |-> "Bearer", expires_in |-> 400],
   [access_token |-> "", refresh_token |-> "R4", token_type |-> "Bearer", expires_in |-> 100]}

\* The outcomes of POST /auth/refresh.
RefreshOutcomes ==
  {[kind |-> "rejected"], [kind |-> "status", status |-> Unauthorized],
   [kind |-> "status", status |-> 500]}
  \cup {[kind |-> "ok", data |-> d] : d \in TokenResponses}

\* The outcomes of POST /auth/logout.
LogoutOutcomes == {"ok", "status", "rejected"}

\* How far the clock moves in one step.
TickSteps == {100000, 3600000}

\* --------------------------------------------- mock deposition namespace

\* String(n) in the given radix, n >= 0
DigitChar(d) == SubSeq("0123456789abcdef", d + 1, d + 1)

RECURSIVE ToStringRadix(_, _)
ToStringRadix(n, radix) ==
  IF n < radix THEN DigitChar(n)
  ELSE ToStringRadix(n \div radix, radix) \o DigitChar(n % radix)

\* s.padStart(width, c) for a one-character c
RECURSIVE PadStart(_, _, _)
PadStart(s, width, c) == IF Len(s) >= width THEN s ELSE PadStart(c \o s, width, c)

\* String(depositionCounter).padStart(26, '0')
SrnWidth == 26
\* .toString(16).padStart(16, '0')
ChecksumWidth == 16

\* The SRN generateDepositionSrn() makes of the counter it has incremented
SrnOf(counter) ==
  "urn:osa:localhost:dep:" \o PadStart(ToStringRadix(counter, 10), SrnWidth, "0")

\* Variant: the SRN made without depositionCounter++ taking effect
generateDepositionSrnUncounted(counter) ==
  [depositionCounter |-> counter, srn |-> SrnOf(counter + 1)]

\* generateDepositionSrn() with depositionCounter = counter: the counter it
\* leaves and the SRN it returns
generateDepositionSrn(counter) ==
  [depositionCounter |-> counter + 1, srn |-> SrnOf(counter + 1)]

\* c.charCodeAt(0) for the characters of the file names, of ':' and of digits
CharCodeAt(c) ==
  IF IsDigit(c) THEN 48 + DigitValue(c)
  ELSE CASE c = ":" -> 58 [] c = "." -> 46 [] c = "a" -> 97 [] c = "b" -> 98
         [] c = "c" -> 99 [] c = "s" -> 115 [] c = "t" -> 116 [] c = "v" -> 118
         [] c = "x" -> 120

\* A 32-bit integer is kept as its two 16-bit halves [hi, lo].
Half == 65536

\* ((hash << 5) - hash + code) | 0: 31 * hash + code, modulo 2^32
HashStep(hash, code) ==
  LET lo == 31 * hash.lo + code
  IN [lo |-> lo % Half, hi |-> (31 * hash.hi + lo \div Half) % Half]

RECURSIVE HashOf(_, _)
HashOf(raw, hash) ==
  IF raw = "" THEN hash
  ELSE HashOf(Tail(raw), HashStep(hash, CharCodeAt(Head(raw))))

\* Math.abs(hash) of the signed 32-bit hash
AbsInt32(hash) ==
  IF hash.hi < Half \div 2 THEN hash
  ELSE IF hash.lo = 0 THEN [hi |-> Half - hash.hi, lo |-> 0]
  ELSE [hi |-> Half - 1 - hash.hi, lo |-> Half - hash.lo]

\* n.toString(16) of a number kept as halves
HexOf(n) ==
  IF n.hi = 0 THEN ToStringRadix(n.lo, 16)
  ELSE ToStringRadix(n.hi, 16) \o PadStart(ToStringRadix(n.lo, 16), 4, "0")

\* simpleChecksum(name, size) at time t
simpleChecksum(name, size, t) ==
  LET raw == name \o ":" \o ToStringRadix(size, 10) \o ":" \o ToStringRadix(t, 10)
      hash == HashOf(raw, [hi |-> 0, lo |-> 0])
  IN "sha256:" \o PadStart(HexOf(AbsInt32(hash)), ChecksumWidth, "0")

\* new Date().toISOString() at time t: the text that names the instant t
ToISOString(t) == [instant |-> t]

\* MOCK_CONVENTIONS (of each convention its srn, title and schema_srn)
MOCK_CONVENTIONS ==
  <<[srn |-> "urn:osa:localhost:conv:proteomics-ms",
     title |-> "Proteomics Mass Spectrometry",
     schema_srn |-> "urn:osa:localhost:schema:proteomics-ms@1.4.0"],
    [srn |-> "urn:osa:localhost:conv:bulk-rnaseq-timeseries",
     title |-> "Bulk RNA-Seq Time Series",
     schema_srn |-> "urn:osa:localhost:schema:bulk-rnaseq-timeseries@1.3.0"],
    [srn |-> "urn:osa:localhost:conv:single-cell-rnaseq",
     title |-> "Single-Cell RNA-Seq",
     schema_srn |-> "urn:osa:localhost:schema:single-cell-rnaseq@1.2.0"]>>

\* Variant: find() falling back on the first convention
FindConventionOrFirst(srn) ==
  IF \E i \in DOMAIN MOCK_CONVENTIONS : MOCK_CONVENTIONS[i].srn = srn
  THEN MOCK_CONVENTIONS[CHOOSE i \in DOMAIN MOCK_CONVENTIONS :
                          MOCK_CONVENTIONS[i].srn = srn]
  ELSE MOCK_CONVENTIONS[1]

\* MOCK_CONVENTIONS.find((c) => c.srn === srn): NULL for undefined
FindConvention(srn) ==
  IF \E i \in DOMAIN MOCK_CONVENTIONS : MOCK_CONVENTIONS[i].srn = srn
  THEN MOCK_CONVENTIONS[CHOOSE i \in DOMAIN MOCK_CONVENTIONS :
                          /\ MOCK_CONVENTIONS[i].srn = srn
                          /\ \A j \in 1..(i - 1) : MOCK_CONVENTIONS[j].srn # srn]
  ELSE NULL

\* A Map<string, Deposition>: a function over the keys it has
EmptyMap == [key \in {} |-> NULL]
MapGet(map, key) == IF key \in DOMAIN map THEN map[key] ELSE NULL
MapSet(map, key, value) ==
  [k \in DOMAIN map \cup {key} |-> IF k = key THEN value ELSE map[k]]

\* What a method of the mock gives: the map it leaves, whether its promise
\* rejects, the value it resolves with
Resolves(map, ret) == [depositions |-> map, threw |-> FALSE, ret |-> ret]
Rejects(map) == [depositions |-> map, threw |-> TRUE, ret |-> NULL]

\* listConventions()
listConventions ==
  [items |-> [i \in DOMAIN MOCK_CONVENTIONS |->
               [srn |-> MOCK_CONVENTIONS[i].srn, title |-> MOCK_CONVENTIONS[i].title,
                schema_srn |-> MOCK_CONVENTIONS[i].schema_srn]]]

\* getConvention(srn) over the map of the instance
getConvention(map, srn) ==
  LET conv == FindConvention(srn)
  IN IF conv = NULL THEN Rejects(map) ELSE Resolves(map, conv)

\* Variant: create() making a deposition already in validation
NewDepositionInValidation(srn, conventionSrn, t) ==
  [srn |-> srn, convention_srn |-> conventionSrn, status |-> "in_validation",
   metadata |-> <<>>, files |-> <<>>, record_srn |-> NullStr,
   created_at |-> ToISOString(t), updated_at |-> ToISOString(t)]

\* The deposition create() builds, at time t
NewDeposition(srn, conventionSrn, t) ==
  [srn |-> srn, convention_srn |-> conventionSrn, status |-> "draft",
   metadata |-> <<>>, files |-> <<>>, record_srn |-> NullStr,
   created_at |-> ToISOString(t), updated_at |-> ToISOString(t)]

\* create(conventionSrn) at time t, with the counter of the module: also the
\* counter it leaves
create(map, counter, conventionSrn, t) ==
  LET made == generateDepositionSrn(counter)
  IN [depositions |-> MapSet(map, made.srn, NewDeposition(made.srn, conventionSrn, t)),
      depositionCounter |-> made.depositionCounter,
      threw |-> FALSE,
      ret |-> [srn |-> made.srn]]

\* get(srn)
get(map, srn) ==
  LET dep == MapGet(map, srn)
  IN IF dep = NULL THEN Rejects(map) ELSE Resolves(map, dep)

\* downloadTemplate(conventionSrn): the Blob
downloadTemplate(map, conventionSrn) ==
  LET conv == FindConvention(conventionSrn)
  IN IF conv = NULL THEN Rejects(map)
     ELSE Resolves(map,
            [content |-> "template for " \o conv.title \o "\n",
             type |-> "application/vnd.openxmlformats-officedocument.spreadsheetml.sheet"])

\* uploadSpreadsheet(depositionSrn, file) at time t
uploadSpreadsheet(map, depositionSrn, file, t) ==
  LET dep == MapGet(map, depositionSrn)
      result == [parse_result |->
                   [metadata |-> [title |-> "Sample 1", organism |-> "Homo sapiens"],
                    warnings |-> <<"Column \"batch_id\" in " \o file.name
                                     \o " is not in the schema - it will be ignored">>,
                    errors |-> <<>>]]
  IN Resolves(IF dep = NULL THEN map
              ELSE MapSet(map, depositionSrn, [dep EXCEPT !.updated_at = ToISOString(t)]),
              result)

\* uploadFile(depositionSrn, file) at time t
uploadFile(map, depositionSrn, file, t) ==
  LET dep == MapGet(map, depositionSrn)
      entry == [name |-> file.name, size |-> file.size,
                checksum |-> simpleChecksum(file.name, file.size, t),
                content_type |-> IF Falsy(file.type) THEN NullStr ELSE file.type,
                uploaded_at |-> ToISOString(t)]
  IN Resolves(IF dep = NULL THEN map
              ELSE MapSet(map, depositionSrn,
                          [dep EXCEPT !.files = Append(@, entry),
                                      !.updated_at = ToISOString(t)]),
              [file |-> entry])

\* dep.files.filter((f) => f.name !== filename)
RECURSIVE FilterOut(_, _)
FilterOut(files, filename) ==
  IF files = <<>> THEN <<>>
  ELSE IF Head(files).name # filename
       THEN <<Head(files)>> \o FilterOut(Tail(files), filename)
       ELSE FilterOut(Tail(files), filename)

\* deleteFile(depositionSrn, filename) at time t
deleteFile(map, depositionSrn, filename, t) ==
  LET dep == MapGet(map, depositionSrn)
  IN Resolves(IF dep = NULL THEN map
              ELSE MapSet(map, depositionSrn,
                          [dep EXCEPT !.files = FilterOut(@, filename),
                                      !.updated_at = ToISOString(t)]),
              NULL)

\* Variant: submit() as a toggle between draft and in_validation
SubmittedToggle(dep, t) ==
  [dep EXCEPT !.status = IF @ = "draft" THEN "in_validation" ELSE "draft",
              !.updated_at = ToISOString(t)]

\* What submit() makes of the deposition it finds
Submitted(dep, t) ==
  [dep EXCEPT !.status = "in_validation", !.updated_at = ToISOString(t)]

\* submit(depositionSrn) at time t
submit(map, depositionSrn, t) ==
  LET dep == MapGet(map, depositionSrn)
  IN Resolves(IF dep = NULL THEN map ELSE MapSet(map, depositionSrn, Submitted(dep, t)),
              NULL)

\* The instances of MockDepositionNamespace: the one createOSA() makes and
\* another, which share depositionCounter.
Instances == {1, 2}

MockInit ==
  [depositionCounter |-> 0, depositions |-> [i \in Instances |-> EmptyMap]]

\* The SRNs handed to the mock: those of the first depositions made, and one
\* that is never made.
DepositionSrns == {SrnOf(1), SrnOf(2), "urn:osa:localhost:dep:unknown"}

\* The convention SRNs handed to the mock: a mock convention and another.
ConventionSrns ==
  {"urn:osa:localhost:conv:proteomics-ms", "urn:osa:localhost:conv:nonexistent"}

\* The File objects handed to the mock: [name, size, type].
Files ==
  {[name |-> "a.csv", size |-> 4, type |-> "text/csv"],
   [name |-> "b.txt", size |-> 0, type |-> ""]}

\* ----------------------------------------------------------------- state

VARIABLES
  now,          \* Date.now()
  env,          \* the storage implementation and the environment
  config,       \* AuthClient.config
  storage,      \* [auth: MemoryTokenStorage.auth, item: localStorage[STORAGE_KEY]]
  timers,       \* [handle: AuthClient.refreshTimer, pending: armed timeouts]
  refreshFn,    \* HttpClient.refreshFn is set
  refreshCalls, \* the refresh() calls awaiting POST /auth/refresh
  logoutCall,   \* the logout() call awaiting POST /auth/logout
  httpCall,     \* the HttpClient.fetch call in progress
  fetchDone,    \* the HttpClient.fetch call that returned in the step just taken
  lastEvent,    \* the step just taken and what it returned
  callsMade,    \* the calls the application has made
  refreshFailed, \* history: a refresh() was answered with a status that is
                \* not ok, and no handleCallback has stored a session since
  mock          \* [depositionCounter, depositions of each MockDepositionNamespace]

vars ==
  <<now, env, config, storage, timers, refreshFn, refreshCalls, logoutCall,
    httpCall, fetchDone, lastEvent, callsMade, refreshFailed, mock>>

Idle == [pc |-> "idle"]

Init ==
  /\ now = 0
  /\ env \in Environments
  /\ config \in Configs
  /\ storage = [auth |-> NULL, item |-> NULL]
  /\ timers = NoTimers
  /\ refreshFn = FALSE
  /\ refreshCalls = EmptyBag
  /\ logoutCall = Idle
  /\ httpCall = Idle
  /\ fetchDone = NULL
  /\ lastEvent = [op |-> "init"]
  /\ callsMade = 0
  /\ refreshFailed = FALSE
  /\ mock = MockInit

\* --------------------------------------------------------------- the clock

Tick(d) ==
  /\ UNCHANGED mock
  /\ UNCHANGED refreshFailed
  /\ UNCHANGED callsMade
  /\ now < MaxNow
  /\ now' = now + d
  /\ lastEvent' = [op |-> "tick"]
  /\ UNCHANGED <<env, config, storage, timers, refreshFn, refreshCalls,
                 logoutCall, httpCall>>
  /\ fetchDone' = NULL

\* ------------------------------------------ synchronous calls of the facade

\* http.setRefreshFn(() => auth.refreshToken())
SetRefreshFn ==
  /\ UNCHANGED mock
  /\ UNCHANGED refreshFailed
  /\ UNCHANGED callsMade
  /\ ~refreshFn
  /\ refreshFn' = TRUE
  /\ lastEvent' = [op |-> "setRefreshFn"]
  /\ UNCHANGED <<now, env, config, storage, timers, refreshCalls, logoutCall,
                 httpCall>>
  /\ fetchDone' = NULL

\* AuthNamespace.handleCallback(hash)
HandleCallback(hash) ==
  LET params == Parsed[hash]
      session == CallbackSession(params, now)
  IN /\ UNCHANGED mock
     /\ callsMade < MaxCalls
     /\ callsMade' = callsMade + 1
     /\ IF params = NULL
        THEN /\ lastEvent' = [op |-> "handleCallback", hash |-> hash, at |-> now,
                              replaced |-> FALSE,
                              hadTimer |-> timers.pending # {}, ret |-> NULL]
             /\ UNCHANGED <<storage, timers, refreshFailed>>
        ELSE /\ storage' = StorageSet(env, storage, session)
             /\ refreshFailed' = FALSE
             /\ timers' = MaybeSetupAutoRefresh(timers, config, session.tokens, now)
             /\ lastEvent' = [op |-> "handleCallback", hash |-> hash, at |-> now,
                              replaced |-> StorageGet(env, storage) # NULL,
                              hadTimer |-> timers.pending # {},
                              ret |-> [user |-> session.user, tokens |-> session.tokens]]
     /\ UNCHANGED <<now, env, config, refreshFn, refreshCalls, logoutCall,
                    httpCall>>
  /\ fetchDone' = NULL

\* AuthNamespace.getStoredAuth()
GetStoredAuth ==
  /\ UNCHANGED mock
  /\ UNCHANGED refreshFailed
  /\ UNCHANGED callsMade
  /\ storage' = StorageAfterGetStoredAuth(env, storage, now)
  /\ lastEvent' = [op |-> "getStoredAuth", ret |-> getStoredAuth(env, storage, now)]
  /\ UNCHANGED <<now, env, config, timers, refreshFn, refreshCalls, logoutCall,
                 httpCall>>
  /\ fetchDone' = NULL

\* AuthNamespace.isAuthenticated()
IsAuthenticated ==
  /\ UNCHANGED mock
  /\ UNCHANGED refreshFailed
  /\ UNCHANGED callsMade
  /\ storage' = StorageAfterGetStoredAuth(env, storage, now)
  /\ lastEvent' = [op |-> "isAuthenticated", ret |-> isAuthenticated(env, storage, now)]
  /\ UNCHANGED <<now, env, config, timers, refreshFn, refreshCalls, logoutCall,
                 httpCall>>
  /\ fetchDone' = NULL

\* ------------------------------------------------------ AuthClient.refresh

\* The calls awaiting their response are a bag: two calls made from the
\* same state are alike.
HasFreeSlot(calls) == BagCardinality(calls) < MaxRefreshCalls

\* Variant: refresh() joining the call in flight instead of sending
AddCallShared(calls, call) ==
  IF calls = EmptyBag THEN calls (+) SetToBag({call}) ELSE calls

\* refresh() has no record of the calls in flight: each call sends its own
\* POST /auth/refresh
AddCall(calls, call) == calls (+) SetToBag({call})

RemoveCall(calls, call) == calls (-) SetToBag({call})

\* Variant: refresh() without the check of its first lines
RefreshNeverThrowsNoToken(e, st) == FALSE

\* refresh() throws before any request when !stored?.tokens?.refreshToken
RefreshThrowsNoToken(e, st) == Falsy(RefreshTokenOf(StorageGet(e, st)))

\* refresh() up to its await: the call that now awaits POST /auth/refresh,
\* holding the session it read (stored) and the refresh token it sent
NewRefreshCall(e, st, caller) ==
  LET stored == StorageGet(e, st)
  IN [caller |-> caller, user |-> IF stored = NULL THEN NULL ELSE stored.user,
      sentToken |-> RefreshTokenOf(stored)]

\* Variant: a transport error clearing the storage
RefreshTransportErrorClears(e, st) == StorageClear(e, st)

\* Variant: a response that is not ok leaving the storage as it is
RefreshNotOkKeeps(e, st) == st

\* refresh() when the fetch rejects: the rejection leaves the function at
\* the await of line 140, nothing after it runs
RefreshTransportError(e, st) == st

\* refresh(), lines 146-149: a response that is not ok clears the storage
RefreshNotOk(e, st) == StorageClear(e, st)

\* Variant: the write of line 159 left out when the storage has been
\* cleared since the call read it
RefreshOkUnlessCleared(e, st, session) ==
  IF StorageGet(e, st) = NULL THEN st ELSE StorageSet(e, st, session)

\* refresh(), line 159: this.storage.set({ tokens, user: stored.user }),
\* whatever the storage holds by now
RefreshOk(e, st, session) == StorageSet(e, st, session)

\* Variant: refresh() cancelling the timer where it clears the storage
RefreshSettledCancelling(e, st, tm, cfg, call, outcome, t) ==
  IF outcome.kind = "rejected"
  THEN [storage |-> RefreshTransportError(e, st), timers |-> tm, threw |-> TRUE,
        ret |-> NULL]
  ELSE IF outcome.kind = "status"
  THEN [storage |-> RefreshNotOk(e, st), timers |-> cancelAutoRefresh(tm),
        threw |-> TRUE, ret |-> NULL]
  ELSE LET session == RefreshedSession(call, outcome.data, t)
       IN [storage |-> RefreshOk(e, st, session),
           timers |-> MaybeSetupAutoRefresh(tm, cfg, session.tokens, t),
           threw |-> FALSE,
           ret |-> session.tokens]

\* refresh() from the settled request to its end, at time t:
\* the storage and timers it leaves, whether it throws, what it returns
RefreshSettled(e, st, tm, cfg, call, outcome, t) ==
  IF outcome.kind = "rejected"
  THEN [storage |-> RefreshTransportError(e, st), timers |-> tm, threw |-> TRUE,
        ret |-> NULL]
  ELSE IF outcome.kind = "status"
  THEN [storage |-> RefreshNotOk(e, st), timers |-> tm, threw |-> TRUE, ret |-> NULL]
  ELSE LET session == RefreshedSession(call, outcome.data, t)
       IN [storage |-> RefreshOk(e, st, session),
           timers |-> MaybeSetupAutoRefresh(tm, cfg, session.tokens, t),
           threw |-> FALSE,
           ret |-> session.tokens]

\* ------------------------------------------------------ HttpClient.fetch

\* headers.set('Authorization', `Bearer ${accessToken}`) when there is one
Authorization(a) ==
  IF Falsy(AccessTokenOf(a)) THEN NullStr ELSE "Bearer " \o AccessTokenOf(a)

\* fetch(`${this.baseUrl}${path}`, {...options, headers})
Send(request, authorization) == [request |-> request, authorization |-> authorization]

\* Variant: refreshing whatever the status
ShouldRefreshAnyStatus(resp, stored, wired) ==
  ~Falsy(RefreshTokenOf(stored)) /\ wired

\* Variant: the retry sent with the token read before the refresh
RetryAuthorizationStale(stored, newStored) == Authorization(stored)

\* Variant: the retry sent with this.fetch
RetryPcRecursive == "await1"

\* response.status === 401 && stored?.tokens?.refreshToken && this.refreshFn
ShouldRefresh(resp, stored, wired) ==
  resp.status = Unauthorized /\ ~Falsy(RefreshTokenOf(stored)) /\ wired

\* The Authorization header of the retry: the token read after the refresh
RetryAuthorization(stored, newStored) == Authorization(newStored)

\* The retry is sent with the global fetch, not with this.fetch: its
\* response is returned as it is
RetryPc == "await2"

\* fetch() returns: the summary of the call
Finished(call, result, refreshThrew, newAccessToken) ==
  [request |-> call.request, storedRefreshToken |-> RefreshTokenOf(call.stored),
   sent |-> call.sent, first |-> call.first, refreshes |-> call.refreshes,
   wired |-> call.wired, refreshThrew |-> refreshThrew,
   newAccessToken |-> newAccessToken, result |-> result]

\* Variant: the retry sent whether or not the refresh threw or left a token
HttpAfterRefreshAlwaysRetries(call, threw, e, st) ==
  LET newStored == StorageGet(e, st)
  IN [call |-> [call EXCEPT
                  !.pc = RetryPc,
                  !.newAccessToken = AccessTokenOf(newStored),
                  !.sent = Append(@, Send(call.request, Authorization(newStored)))],
      done |-> NULL]

\* fetch() after await this.refreshFn(): lines 38-51.  The refresh threw, or
\* left the storage st.  Gives the call as it goes on, and its summary when
\* it has returned.
HttpAfterRefresh(call, threw, e, st) ==
  LET newStored == StorageGet(e, st)
  IN IF ~threw /\ ~Falsy(AccessTokenOf(newStored))
     THEN [call |-> [call EXCEPT
                       !.pc = RetryPc,
                       !.newAccessToken = AccessTokenOf(newStored),
                       !.sent = Append(@, Send(call.request,
                                  RetryAuthorization(call.stored, newStored)))],
           done |-> NULL]
     ELSE [call |-> Idle,
           done |-> Finished(call, call.first, threw,
                             IF threw THEN NullStr ELSE AccessTokenOf(newStored))]

\* const stored = this.storage?.get(); ...; await fetch(...)
HttpFetch(request) ==
  /\ UNCHANGED mock
  /\ UNCHANGED refreshFailed
  /\ callsMade < MaxCalls
  /\ callsMade' = callsMade + 1
  /\ httpCall = Idle
  /\ LET stored == StorageGet(env, storage)
     IN httpCall' = [pc |-> "await1", request |-> request,
                     stored |-> IF stored = NULL THEN NULL
                                ELSE [tokens |-> [accessToken |-> AccessTokenOf(stored),
                                                  refreshToken |-> RefreshTokenOf(stored)]],
                     sent |-> <<Send(request, Authorization(stored))>>,
                     first |-> NULL, refreshes |-> 0, wired |-> refreshFn,
                     newAccessToken |-> NullStr]
  /\ lastEvent' = [op |-> "fetch"]
  /\ fetchDone' = NULL
  /\ UNCHANGED <<now, env, config, storage, timers, refreshFn, refreshCalls, logoutCall>>

\* The first request settles: fetch() goes on to line 34.
HttpSettleFirst(outcome) ==
  /\ UNCHANGED mock
  /\ UNCHANGED refreshFailed
  /\ UNCHANGED callsMade
  /\ httpCall.pc = "await1"
  /\ LET call == [httpCall EXCEPT !.first = outcome, !.wired = refreshFn]
     IN IF outcome = Rejected
        THEN /\ httpCall' = Idle
             /\ fetchDone' = Finished(call, Rejected, FALSE, NullStr)
             /\ UNCHANGED refreshCalls
        ELSE IF ~ShouldRefresh(outcome, call.stored, refreshFn)
        THEN /\ httpCall' = Idle
             /\ fetchDone' = Finished(call, outcome, FALSE, NullStr)
             /\ UNCHANGED refreshCalls
        ELSE IF RefreshThrowsNoToken(env, storage)
        THEN LET next == HttpAfterRefresh([call EXCEPT !.refreshes = @ + 1],
                                          TRUE, env, storage)
             IN /\ httpCall' = next.call
                /\ fetchDone' = next.done
                /\ UNCHANGED refreshCalls
        ELSE /\ HasFreeSlot(refreshCalls)
             /\ refreshCalls' = AddCall(refreshCalls, NewRefreshCall(env, storage, "http"))
             /\ httpCall' = [call EXCEPT !.pc = "awaitRefresh", !.refreshes = @ + 1]
             /\ fetchDone' = NULL
  /\ lastEvent' = [op |-> "fetchResponse", outcome |-> outcome]
  /\ UNCHANGED <<now, env, config, storage, timers, refreshFn, logoutCall>>

\* Variant: `return await fetch(...)`, whose rejection the catch would take
RetryResultCaught(call, outcome) ==
  IF outcome = Rejected THEN call.first ELSE outcome

\* `return fetch(...)` inside the try: the promise is returned without being
\* awaited there, so the caller gets its outcome, a rejection too
RetryResult(call, outcome) == outcome

\* The retry settles: `return fetch(...)` hands it to the caller.
HttpSettleRetry(outcome) ==
  /\ UNCHANGED mock
  /\ UNCHANGED refreshFailed
  /\ UNCHANGED callsMade
  /\ httpCall.pc = "await2"
  /\ httpCall' = Idle
  /\ fetchDone' = Finished(httpCall, RetryResult(httpCall, outcome), FALSE,
                          httpCall.newAccessToken)
  /\ lastEvent' = [op |-> "fetchRetryResponse", outcome |-> outcome]
  /\ UNCHANGED <<now, env, config, storage, timers, refreshFn, refreshCalls, logoutCall>>

\* ------------------------------------------- refresh(): calls and returns

\* Variant: the timer callback without its try/catch
TimerCallbackRethrows(refreshThrew) == refreshThrew

\* The callback of the timeout, try { await this.refresh() } catch {}:
\* whether it throws, given whether refresh() threw
TimerCallbackThrows(refreshThrew) == FALSE

\* Whether the caller of refresh() lets its error out: the timer callback
\* and HttpClient.fetch catch it, refreshToken() hands it on
Surfaced(caller, refreshThrew) ==
  IF caller = "timer" THEN TimerCallbackThrows(refreshThrew)
  ELSE caller = "manual" /\ refreshThrew

\* AuthNamespace.refreshToken(), called by the application
RefreshToken ==
  /\ UNCHANGED mock
  /\ UNCHANGED refreshFailed
  /\ callsMade < MaxCalls
  /\ callsMade' = callsMade + 1
  /\ IF RefreshThrowsNoToken(env, storage)
     THEN /\ lastEvent' = [op |-> "refresh", caller |-> "manual", sent |-> FALSE,
                           threw |-> TRUE, surfaced |-> Surfaced("manual", TRUE),
                           ret |-> NULL]
          /\ UNCHANGED refreshCalls
     ELSE /\ HasFreeSlot(refreshCalls)
          /\ refreshCalls' = AddCall(refreshCalls, NewRefreshCall(env, storage, "manual"))
          /\ lastEvent' = [op |-> "refreshSent", caller |-> "manual"]
  /\ UNCHANGED <<now, env, config, storage, timers, refreshFn, logoutCall,
                 httpCall>>
  /\ fetchDone' = NULL

\* The timeout armed by setupAutoRefresh expires: try { await this.refresh() }
\* catch {}
TimerFire(t) ==
  /\ UNCHANGED mock
  /\ UNCHANGED refreshFailed
  /\ UNCHANGED callsMade
  /\ t \in timers.pending
  /\ t.fireAt <= now
  /\ timers' = [timers EXCEPT !.pending = @ \ {t}]
  /\ IF RefreshThrowsNoToken(env, storage)
     THEN /\ lastEvent' = [op |-> "refresh", caller |-> "timer", sent |-> FALSE,
                           threw |-> TRUE, surfaced |-> Surfaced("timer", TRUE),
                           ret |-> NULL]
          /\ UNCHANGED refreshCalls
     ELSE /\ HasFreeSlot(refreshCalls)
          /\ refreshCalls' = AddCall(refreshCalls, NewRefreshCall(env, storage, "timer"))
          /\ lastEvent' = [op |-> "refreshSent", caller |-> "timer"]
  /\ UNCHANGED <<now, env, config, storage, refreshFn, logoutCall, httpCall>>
  /\ fetchDone' = NULL

\* POST /auth/refresh settles for call i: refresh() runs to its end, and the
\* HttpClient.fetch that awaited it goes on.
RefreshSettle(call, outcome) ==
  /\ UNCHANGED mock
  /\ UNCHANGED callsMade
  /\ BagIn(call, refreshCalls)
  /\ LET r == RefreshSettled(env, storage, timers, config, call, outcome, now)
     IN /\ storage' = r.storage
        /\ timers' = r.timers
        /\ refreshCalls' = RemoveCall(refreshCalls, call)
        /\ refreshFailed' = (refreshFailed \/ outcome.kind = "status")
        /\ lastEvent' = [op |-> "refresh", caller |-> call.caller, sent |-> TRUE,
                         outcome |-> outcome.kind, response |-> outcome,
                         threw |-> r.threw, surfaced |-> Surfaced(call.caller, r.threw),
                         ret |-> r.ret,
                         at |-> now, user |-> call.user, sentToken |-> call.sentToken,
                         hadTimer |-> timers.pending # {},
                         hadSession |-> StorageGet(env, storage) # NULL]
        /\ IF call.caller = "http"
           THEN LET next == HttpAfterRefresh(httpCall, r.threw, env, r.storage)
                IN httpCall' = next.call /\ fetchDone' = next.done
           ELSE UNCHANGED httpCall /\ fetchDone' = NULL
  /\ UNCHANGED <<now, env, config, refreshFn, logoutCall>>

\* ------------------------------------------------------- AuthClient.logout

\* logout(), lines 182-183
LogoutFinish(e, st, tm) ==
  [storage |-> StorageClear(e, st), timers |-> cancelAutoRefresh(tm), threw |-> FALSE]

\* Variant: logout() without its catch
LogoutSettledNoCatch(e, st, tm, outcome) ==
  IF outcome = "rejected" THEN [storage |-> st, timers |-> tm, threw |-> TRUE]
  ELSE LogoutFinish(e, st, tm)

\* logout() from the settled POST /auth/logout to its end: the response is
\* not looked at, and the catch swallows a rejection
LogoutSettled(e, st, tm, outcome) == LogoutFinish(e, st, tm)

\* AuthNamespace.logout(), called by the application: with no stored refresh
\* token it runs to its end at once
Logout ==
  /\ UNCHANGED mock
  /\ UNCHANGED refreshFailed
  /\ callsMade < MaxCalls
  /\ callsMade' = callsMade + 1
  /\ logoutCall = Idle
  /\ IF Falsy(RefreshTokenOf(StorageGet(env, storage)))
     THEN LET r == LogoutFinish(env, storage, timers)
          IN /\ storage' = r.storage
             /\ timers' = r.timers
             /\ lastEvent' = [op |-> "logout", sent |-> FALSE, threw |-> r.threw,
                              hadSession |-> StorageGet(env, storage) # NULL,
                              hadTimer |-> timers.pending # {}]
             /\ UNCHANGED logoutCall
     ELSE /\ logoutCall' = [pc |-> "await"]
          /\ lastEvent' = [op |-> "logoutSent"]
          /\ UNCHANGED <<storage, timers>>
  /\ UNCHANGED <<now, env, config, refreshFn, refreshCalls, httpCall>>
  /\ fetchDone' = NULL

\* POST /auth/logout settles.
LogoutSettle(outcome) ==
  /\ UNCHANGED mock
  /\ UNCHANGED refreshFailed
  /\ UNCHANGED callsMade
  /\ logoutCall.pc = "await"
  /\ LET r == LogoutSettled(env, storage, timers, outcome)
     IN /\ storage' = r.storage
        /\ timers' = r.timers
        /\ lastEvent' = [op |-> "logout", sent |-> TRUE, outcome |-> outcome,
                         threw |-> r.threw,
                         hadSession |-> StorageGet(env, storage) # NULL,
                         hadTimer |-> timers.pending # {}]
  /\ logoutCall' = Idle
  /\ UNCHANGED <<now, env, config, refreshFn, refreshCalls, httpCall>>
  /\ fetchDone' = NULL

\* ----------------------------------------- MockDepositionNamespace, calls

\* Every method of the mock awaits delay(...) and then runs to its end in one
\* task, reading nothing before: a step below is that task, and the order
\* of the steps is the order in which the delays of the calls expire.

\* The call is recorded; the auth client is not touched
MockEvent(op, inst, arg, result) ==
  /\ callsMade' = callsMade + 1
  /\ lastEvent' = [op |-> op, inst |-> inst, arg |-> arg, threw |-> result.threw,
                   ret |-> result.ret, at |-> now]
  /\ UNCHANGED <<now, env, config, storage, timers, refreshFn, refreshCalls,
                 logoutCall, httpCall, fetchDone, refreshFailed>>

ListConventions(i) ==
  /\ callsMade < MaxCalls
  /\ UNCHANGED mock
  /\ MockEvent("listConventions", i, NULL,
               Resolves(mock.depositions[i], listConventions))

GetConvention(i, srn) ==
  /\ callsMade < MaxCalls
  /\ LET result == getConvention(mock.depositions[i], srn)
     IN /\ mock' = [mock EXCEPT !.depositions[i] = result.depositions]
        /\ MockEvent("getConvention", i, srn, result)

Create(i, conventionSrn) ==
  /\ callsMade < MaxCalls
  /\ LET result == create(mock.depositions[i], mock.depositionCounter,
                          conventionSrn, now)
     IN /\ mock.depositionCounter < MaxCreates
        /\ mock' = [depositionCounter |-> result.depositionCounter,
                   depositions |-> [mock.depositions EXCEPT ![i] = result.depositions]]
        /\ MockEvent("create", i, conventionSrn, result)

Get(i, srn) ==
  /\ callsMade < MaxCalls
  /\ LET result == get(mock.depositions[i], srn)
     IN /\ mock' = [mock EXCEPT !.depositions[i] = result.depositions]
        /\ MockEvent("get", i, srn, result)

DownloadTemplate(i, conventionSrn) ==
  /\ callsMade < MaxCalls
  /\ LET result == downloadTemplate(mock.depositions[i], conventionSrn)
     IN /\ mock' = [mock EXCEPT !.depositions[i] = result.depositions]
        /\ MockEvent("downloadTemplate", i, conventionSrn, result)

UploadSpreadsheet(i, srn, file) ==
  /\ callsMade < MaxCalls
  /\ LET result == uploadSpreadsheet(mock.depositions[i], srn, file, now)
     IN /\ mock' = [mock EXCEPT !.depositions[i] = result.depositions]
        /\ MockEvent("uploadSpreadsheet", i, [srn |-> srn, file |-> file], result)

UploadFile(i, srn, file) ==
  /\ callsMade < MaxCalls
  /\ LET result == uploadFile(mock.depositions[i], srn, file, now)
         dep == MapGet(mock.depositions[i], srn)
     IN /\ dep # NULL => Len(dep.files) < MaxFiles
        /\ mock' = [mock EXCEPT !.depositions[i] = result.depositions]
        /\ MockEvent("uploadFile", i, [srn |-> srn, file |-> file], result)

DeleteFile(i, srn, filename) ==
  /\ callsMade < MaxCalls
  /\ LET result == deleteFile(mock.depositions[i], srn, filename, now)
     IN /\ mock' = [mock EXCEPT !.depositions[i] = result.depositions]
        /\ MockEvent("deleteFile", i, [srn |-> srn, filename |-> filename], result)

Submit(i, srn) ==
  /\ callsMade < MaxCalls
  /\ LET result == submit(mock.depositions[i], srn, now)
     IN /\ mock' = [mock EXCEPT !.depositions[i] = result.depositions]
        /\ MockEvent("submit", i, srn, result)

NextMock ==
  \/ \E d \in TickSteps : Tick(d)
  \/ \E i \in Instances : ListConventions(i)
  \/ \E i \in Instances, srn \in ConventionSrns : GetConvention(i, srn)
  \/ \E i \in Instances, srn \in ConventionSrns : Create(i, srn)
  \/ \E i \in Instances, srn \in DepositionSrns : Get(i, srn)
  \/ \E i \in Instances, srn \in ConventionSrns : DownloadTemplate(i, srn)
  \/ \E i \in Instances, srn \in DepositionSrns, file \in Files :
       UploadSpreadsheet(i, srn, file)
  \/ \E i \in Instances, srn \in DepositionSrns, file \in Files :
       UploadFile(i, srn, file)
  \/ \E i \in Instances, srn \in DepositionSrns, file \in Files :
       DeleteFile(i, srn, file.name)
  \/ \E i \in Instances, srn \in DepositionSrns : Submit(i, srn)

\* Nothing of the mock depends on the storage or on the configuration of the
\* auth client: one of each.
InitMock ==
  /\ Init
  /\ env = [kind |-> "memory", hasWindow |-> TRUE]
  /\ config.autoRefresh

SpecMock == InitMock /\ [][NextMock]_vars

\* ------------------------------------------------------ the specification

Next ==
  \/ \E d \in TickSteps : Tick(d)
  \/ SetRefreshFn
  \/ \E hash \in Fragments : HandleCallback(hash)
  \/ GetStoredAuth
  \/ IsAuthenticated
  \/ RefreshToken
  \/ \E t \in timers.pending : TimerFire(t)
  \/ \E call \in BagToSet(refreshCalls), outcome \in RefreshOutcomes :
       RefreshSettle(call, outcome)
  \/ Logout
  \/ \E outcome \in LogoutOutcomes : LogoutSettle(outcome)
  \/ \E request \in Requests : HttpFetch(request)
  \/ \E status \in Statuses : HttpSettleFirst(Response(1, status))
  \/ HttpSettleFirst(Rejected)
  \/ \E status \in Statuses : HttpSettleRetry(Response(2, status))
  \/ HttpSettleRetry(Rejected)

Spec == Init /\ [][Next]_vars

\* The client under every shape of callback fragment: the calls of the
\* session manager, without the HTTP pipeline.
NextCallback ==
  \/ \E d \in TickSteps : Tick(d)
  \/ \E hash \in AllFragments : HandleCallback(hash)
  \/ RefreshToken
  \/ \E t \in timers.pending : TimerFire(t)
  \/ \E call \in BagToSet(refreshCalls), outcome \in RefreshOutcomes :
       RefreshSettle(call, outcome)
  \/ Logout
  \/ \E outcome \in LogoutOutcomes : LogoutSettle(outcome)

SpecCallback == Init /\ [][NextCallback]_vars

\* -------------------------------------------- OSAClient and its thresholds

\* An option of the OSAClient constructor: left out, or given
Unset == [given |-> FALSE]
Opt(v) == [given |-> TRUE, value |-> v]

\* options.x ?? fallback
OrElse(option, fallback) == IF option.given THEN option.value ELSE fallback

\* The SDKConfig the OSAClient constructor makes of its options
ClientConfig(options) ==
  [autoRefresh |-> OrElse(options.autoRefresh, TRUE),
   refreshThreshold |-> OrElse(options.refreshThreshold, DefaultRefreshThreshold)]

\* Auto-refresh on, the threshold unset, 0, 100 or 3000 seconds.
TimerOptions ==
  {[autoRefresh |-> a, refreshThreshold |-> r] :
     a \in {Unset, Opt(TRUE)}, r \in {Unset, Opt(0), Opt(100), Opt(3000)}}

InitTimer ==
  /\ now = 0
  /\ env \in Environments
  /\ config \in {ClientConfig(options) : options \in TimerOptions}
  /\ storage = [auth |-> NULL, item |-> NULL]
  /\ timers = NoTimers
  /\ refreshFn = FALSE
  /\ refreshCalls = EmptyBag
  /\ logoutCall = Idle
  /\ httpCall = Idle
  /\ fetchDone = NULL
  /\ lastEvent = [op |-> "init"]
  /\ callsMade = 0
  /\ refreshFailed = FALSE
  /\ mock = MockInit

NextTimer ==
  \/ \E d \in TickSteps : Tick(d)
  \/ \E hash \in Fragments : HandleCallback(hash)
  \/ RefreshToken
  \/ \E t \in timers.pending : TimerFire(t)
  \/ \E call \in BagToSet(refreshCalls), outcome \in RefreshOutcomes :
       RefreshSettle(call, outcome)
  \/ Logout
  \/ \E outcome \in LogoutOutcomes : LogoutSettle(outcome)

SpecTimer == InitTimer /\ [][NextTimer]_vars

\* ------------------------------------------------------- TokenStorage alone

StorageUser == [id |-> "U1", displayName |-> "Ada", externalId |-> "0000-0001"]

\* The sessions handed to set(): two with every field, one per required
\* field left empty, one whose expiresAt is NaN.
Sessions ==
  {[tokens |-> [accessToken |-> "A1", refreshToken |-> "R1", expiresAt |-> 1000],
    user |-> StorageUser],
   [tokens |-> [accessToken |-> "A2", refreshToken |-> "R2", expiresAt |-> 2000],
    user |-> [id |-> "U2", displayName |-> NullStr, externalId |-> "0000-0002"]],
   [tokens |-> [accessToken |-> "", refreshToken |-> "R1", expiresAt |-> 1000],
    user |-> StorageUser],
   [tokens |-> [accessToken |-> "A1", refreshToken |-> "", expiresAt |-> 1000],
    user |-> StorageUser],
   [tokens |-> [accessToken |-> "A1", refreshToken |-> "R1", expiresAt |-> 1000],
    user |-> [StorageUser EXCEPT !.id = ""]],
   [tokens |-> [accessToken |-> "A1", refreshToken |-> "R1", expiresAt |-> NaN],
    user |-> StorageUser]}

\* What something else than set() may leave under STORAGE_KEY: a text that is
\* no JSON, a document without tokens, a document without user.
ForeignItems ==
  {Malformed,
   [tokens |-> NULL, user |-> StorageUser],
   [tokens |-> [accessToken |-> "A1", refreshToken |-> "R1", expiresAt |-> 1000],
    user |-> NULL]}

\* The two calls of the storage before the one of the event ev
Trail(ev) ==
  IF ev.op = "init" THEN <<>>
  ELSE LET all == Append(ev.trail, [op |-> ev.op, arg |-> ev.arg])
       IN IF Len(all) > 2 THEN Tail(all) ELSE all

\* The call is recorded; nothing but the storage is touched
StorageEvent(op, arg, ret) ==
  /\ UNCHANGED mock
  /\ lastEvent' = [op |-> op, arg |-> arg, ret |-> ret, trail |-> Trail(lastEvent)]
  /\ UNCHANGED <<now, env, config, timers, refreshFn, refreshCalls, logoutCall,
                 httpCall, fetchDone, callsMade, refreshFailed>>

\* storage.set(auth)
StorageSetCall(auth) ==
  /\ storage' = StorageSet(env, storage, auth)
  /\ StorageEvent("set", auth, NULL)

\* storage.get()
StorageGetCall ==
  /\ storage' = storage
  /\ StorageEvent("get", NULL, StorageGet(env, storage))

\* storage.clear()
StorageClearCall ==
  /\ storage' = StorageClear(env, storage)
  /\ StorageEvent("clear", NULL, NULL)

\* localStorage[STORAGE_KEY] written by something else than the SDK
ItemOverwritten(doc) ==
  /\ env.kind = "local"
  /\ env.hasWindow
  /\ storage' = [storage EXCEPT !.item = [text |-> doc]]
  /\ StorageEvent("overwritten", doc, NULL)

NextStorage ==
  \/ \E auth \in Sessions : StorageSetCall(auth)
  \/ StorageGetCall
  \/ StorageClearCall
  \/ \E doc \in ForeignItems : ItemOverwritten(doc)

SpecStorage == Init /\ [][NextStorage]_vars

\* ------------------------------------------------------------ the claims

\* storage.get() in the current state
Stored == StorageGet(env, storage)

EmptyStorage == [auth |-> NULL, item |-> NULL]

\* C1: a fetch whose first response is 401, made with a stored refresh token
\* and a wired refresh callback, whose refresh succeeds and leaves an access
\* token in storage, resends the same request once, with the Authorization
\* header of the token that is in storage after the refresh; the caller gets
\* what the second request gives, and the refresh callback ran exactly once.
C1_RetryAfterRefresh ==
  /\ (lastEvent.op = "refresh" /\ lastEvent.caller = "http" /\ ~lastEvent.threw
        /\ ~Falsy(AccessTokenOf(Stored)))
     => /\ httpCall.pc = "await2"
        /\ fetchDone = NULL
        /\ httpCall.first.status = Unauthorized
        /\ httpCall.refreshes = 1
        /\ Len(httpCall.sent) = 2
        /\ httpCall.sent[2].request = httpCall.sent[1].request
        /\ httpCall.sent[2].authorization = "Bearer " \o AccessTokenOf(Stored)
  /\ (fetchDone # NULL /\ Len(fetchDone.sent) = 2)
     => /\ fetchDone.refreshes = 1
        /\ fetchDone.sent[2].request = fetchDone.sent[1].request
        /\ (fetchDone.result = Rejected \/ fetchDone.result.n = 2)

\* C1, reached: a 401, a refresh that replaced token A1 by A3, a retry with
\* A3 answered 200, which the caller got.
C1_Witness ==
  /\ fetchDone # NULL
  /\ fetchDone.first = Response(1, Unauthorized)
  /\ Len(fetchDone.sent) = 2
  /\ fetchDone.sent[1].authorization = "Bearer A1"
  /\ fetchDone.sent[2].authorization = "Bearer A3"
  /\ fetchDone.result = Response(2, 200)

\* C2: one call of fetch sends at most two requests and calls the refresh
\* callback at most once, whatever the server answers; what the retry gives,
\* a 401 too, is returned and starts no further refresh.
C2_AtMostOneRetry ==
  /\ httpCall # Idle => Len(httpCall.sent) <= 2 /\ httpCall.refreshes <= 1
  /\ fetchDone # NULL => Len(fetchDone.sent) <= 2 /\ fetchDone.refreshes <= 1
  /\ lastEvent.op = "fetchRetryResponse"
     => /\ fetchDone # NULL
        /\ httpCall = Idle
        /\ (fetchDone.result = Rejected \/ fetchDone.result.n = 2)
        /\ \A call \in BagToSet(refreshCalls) : call.caller # "http"

\* C2, reached: the server answered 401 to the request and to its retry.
C2_Witness ==
  /\ fetchDone # NULL
  /\ fetchDone.first = Response(1, Unauthorized)
  /\ fetchDone.result = Response(2, Unauthorized)
  /\ Len(fetchDone.sent) = 2
  /\ fetchDone.refreshes = 1

\* The fetch f called the refresh callback: 401, a refresh token stored at
\* send time, a callback wired.
RefreshCase(f) ==
  /\ f.first # Rejected
  /\ f.first.status = Unauthorized
  /\ ~Falsy(f.storedRefreshToken)
  /\ f.wired

\* The fetch f met '401, refresh attempted and succeeded'.
RetryCase(f) ==
  /\ RefreshCase(f)
  /\ f.refreshes = 1
  /\ ~f.refreshThrew
  /\ ~Falsy(f.newAccessToken)

\* C3: in every case other than '401, refresh attempted and succeeded, an
\* access token in storage' fetch sends one request and returns what it
\* gave; the refresh callback is not called unless the status is 401, a
\* refresh token was stored at send time and a callback is wired.
C3_FirstResponseReturned ==
  fetchDone # NULL
  => /\ ~RefreshCase(fetchDone) => fetchDone.refreshes = 0
     /\ ~RetryCase(fetchDone)
        => Len(fetchDone.sent) = 1 /\ fetchDone.result = fetchDone.first

\* C3, reached: the refresh callback threw and the caller got the 401.
C3_Witness ==
  /\ fetchDone # NULL
  /\ fetchDone.first = Response(1, Unauthorized)
  /\ fetchDone.refreshes = 1
  /\ fetchDone.refreshThrew
  /\ fetchDone.result = fetchDone.first
  /\ Len(fetchDone.sent) = 1

\* C4 as claimed: from a refresh() answered with a status that is not ok
\* until the next successful handleCallback, storage.get() and
\* getStoredAuth() give nothing.
C4_Claimed ==
  refreshFailed => Stored = NULL /\ getStoredAuth(env, storage, now) = NULL

\* C4, amended: a refresh() answered with a status that is not ok throws and
\* leaves the storage empty; from then on a session appears in storage again
\* only by a successful handleCallback or by the 2xx answer to another
\* refresh() that was still awaiting its response.
C4_RefreshNotOkClears ==
  /\ [](lastEvent.op = "refresh" /\ lastEvent.sent /\ lastEvent.outcome = "status"
        => /\ lastEvent.threw
           /\ storage = EmptyStorage
           /\ Stored = NULL
           /\ getStoredAuth(env, storage, now) = NULL)
  /\ [][(refreshFailed /\ Stored = NULL /\ StorageGet(env', storage') # NULL)
        => \/ lastEvent'.op = "handleCallback"
           \/ lastEvent'.op = "refresh" /\ lastEvent'.sent /\ lastEvent'.outcome = "ok"]_vars

\* C4, reached: a refresh() that found a session stored was answered with a
\* status that is not ok.
C4_Witness ==
  /\ lastEvent.op = "refresh"
  /\ lastEvent.sent
  /\ lastEvent.outcome = "status"
  /\ lastEvent.hadSession
  /\ lastEvent.threw
  /\ Stored = NULL

C6_LogoutClears ==
  lastEvent.op = "logout"
  => /\ ~lastEvent.threw
     /\ storage = EmptyStorage
     /\ Stored = NULL
     /\ timers = NoTimers

\* C6, reached: POST /auth/logout was rejected, with a session stored and a
\* timer pending before logout() finished.
C6_Witness ==
  /\ lastEvent.op = "logout"
  /\ lastEvent.sent
  /\ lastEvent.outcome = "rejected"
  /\ lastEvent.hadSession
  /\ lastEvent.hadTimer

Required == {"access_token", "refresh_token", "expires_in", "user_id", "external_id"}

\* The fragment without its optional '#'
HashContentOf(hash) == IF StartsWith(hash, "#") THEN Slice(hash, 1) ELSE hash

IsAuthFragment(hash) == StartsWith(HashContentOf(hash), "auth=")

\* The value the fragment gives for key: null when it has none
ValueIn(hash, key) == SearchParamsGet(Slice(HashContentOf(hash), AuthPrefixLen), key)

\* What the claims say of each fragment, computed once
Present ==
  [hash \in AllFragments |->
     IsAuthFragment(hash) /\ \A key \in Required : ValueIn(hash, key) # NullStr]

NonEmpty ==
  [hash \in AllFragments |->
     IsAuthFragment(hash) /\ \A key \in Required : ~Falsy(ValueIn(hash, key))]

Given == [hash \in AllFragments |-> [key \in Required |-> ValueIn(hash, key)]]

\* handleCallback returned the session the fragment of the step describes,
\* expiring expires_in seconds after the call.
ReturnedSession(e) ==
  /\ e.ret # NULL
  /\ e.ret.tokens.accessToken = Given[e.hash]["access_token"]
  /\ e.ret.tokens.refreshToken = Given[e.hash]["refresh_token"]
  /\ e.ret.tokens.expiresAt = e.at + ParseInt(Given[e.hash]["expires_in"]) * 1000
  /\ e.ret.user.id = Given[e.hash]["user_id"]
  /\ e.ret.user.externalId = Given[e.hash]["external_id"]

\* C7 as claimed: for a fragment '#auth=...' in which the five required
\* fields are present, handleCallback returns the session with expiresAt =
\* t + expires_in * 1000, and storage.get() then gives exactly that session.
C7_Claimed ==
  (lastEvent.op = "handleCallback" /\ Present[lastEvent.hash])
  => /\ ReturnedSession(lastEvent)
     /\ Stored = [tokens |-> lastEvent.ret.tokens, user |-> lastEvent.ret.user]

\* C7, amended: for a fragment in which the five required fields are present
\* and not empty, handleCallback returns the session with expiresAt = t +
\* expires_in * 1000; and over storage that keeps what is set (in memory, or
\* localStorage in a browser) storage.get() then gives exactly that session.
C7_CallbackStoresSession ==
  (lastEvent.op = "handleCallback" /\ NonEmpty[lastEvent.hash])
  => /\ ReturnedSession(lastEvent)
     /\ (env.kind = "memory" \/ env.hasWindow)
        => Stored = [tokens |-> lastEvent.ret.tokens, user |-> lastEvent.ret.user]

\* C7, reached: a login of U2, after time has passed, replaced the session
\* that was stored.
C7_Witness ==
  /\ lastEvent.op = "handleCallback"
  /\ NonEmpty[lastEvent.hash]
  /\ lastEvent.at > 0
  /\ lastEvent.replaced
  /\ lastEvent.ret # NULL
  /\ lastEvent.ret.user.id = "U2"
  /\ Stored # NULL
  /\ Stored.user.id = "U2"

\* The fragment lacks, or gives empty, a required field, or is no 'auth='
\* fragment.
Bad ==
  [hash \in AllFragments |->
     ~IsAuthFragment(hash) \/ \E key \in Required : Falsy(ValueIn(hash, key))]

\* C8: handleCallback with a fragment that lacks (or gives empty) a required
\* field, or that does not start with 'auth=', returns null and leaves the
\* storage and the timer as they were, each time it is called.
C8_BadFragmentChangesNothing ==
  [][(lastEvent'.op = "handleCallback" /\ Bad[lastEvent'.hash])
     => lastEvent'.ret = NULL /\ storage' = storage /\ timers' = timers]_vars

\* C8, reached: a fragment with an empty refresh_token, handed to a client
\* with a session stored and a timer pending.
C8_Witness ==
  /\ lastEvent.op = "handleCallback"
  /\ lastEvent.hash = FragmentOf([AllGiven EXCEPT ![2] = "empty"])
  /\ lastEvent.ret = NULL
  /\ Stored # NULL
  /\ timers.pending # {}

\* A session is stored and its tokens expire after now.
Valid == Stored # NULL /\ Stored.tokens.expiresAt > now

\* C9: isAuthenticated() is true exactly when a session is stored whose
\* expiresAt > now, and getStoredAuth() gives a session exactly then; both
\* say no at now = expiresAt.
C9_AuthenticatedIffUnexpired ==
  /\ isAuthenticated(env, storage, now) <=> Valid
  /\ (getStoredAuth(env, storage, now) # NULL) <=> Valid
  /\ lastEvent.op = "isAuthenticated" => (lastEvent.ret <=> Valid)
  /\ lastEvent.op = "getStoredAuth" => ((lastEvent.ret # NULL) <=> Valid)

\* C9, reached: the session of the login with expires_in=3600 at the very
\* time it expires, where isAuthenticated() said no.
C9_Witness ==
  /\ lastEvent.op = "isAuthenticated"
  /\ lastEvent.ret = FALSE
  /\ Stored # NULL
  /\ Stored.tokens.accessToken = "A1"
  /\ Stored.tokens.expiresAt = 3600 * 1000
  /\ now = Stored.tokens.expiresAt

\* C10: getStoredAuth() and isAuthenticated() change neither the storage nor
\* the timer; with expired tokens stored getStoredAuth() gives null while
\* storage.get() still gives the session, refresh token included, so that
\* refresh() would send it.
C10_QueriesChangeNothing ==
  /\ [][lastEvent'.op \in {"getStoredAuth", "isAuthenticated"}
        => storage' = storage /\ timers' = timers]_vars
  /\ []((lastEvent.op = "getStoredAuth" /\ Stored # NULL /\ ~Valid)
        => /\ lastEvent.ret = NULL
           /\ (~Falsy(RefreshTokenOf(Stored)) => ~RefreshThrowsNoToken(env, storage)))

\* C10, reached: getStoredAuth() gave null for an expired session that is
\* still stored.
C10_Witness ==
  /\ lastEvent.op = "getStoredAuth"
  /\ lastEvent.ret = NULL
  /\ Stored # NULL
  /\ Stored.tokens.expiresAt < now
  /\ ~Falsy(RefreshTokenOf(Stored))

\* The storage keeps what set() is given: in memory, or localStorage in a
\* browser.
Keeps(e) == e.kind = "memory" \/ e.hasWindow

\* LocalTokenStorage.get() gives back the session a it was set with
Readable(a) ==
  /\ ~Falsy(AccessTokenOf(a))
  /\ ~Falsy(RefreshTokenOf(a))
  /\ ~Falsy(UserIdOf(a))
  /\ a.tokens.expiresAt # NaN

\* The round trip for the sessions of which ok holds: get() after set(s)
\* gives s, whatever was set before, and get() after clear() gives nothing.
RoundTrip(ok(_, _)) ==
  /\ (lastEvent.op = "set" /\ ok(env, lastEvent.arg))
     => StorageGet(env, storage) = lastEvent.arg
  /\ lastEvent.op = "clear" => StorageGet(env, storage) = NULL
  /\ (lastEvent.op = "get" /\ lastEvent.trail # <<>>)
     => LET before == lastEvent.trail[Len(lastEvent.trail)]
        IN /\ (before.op = "set" /\ ok(env, before.arg)) => lastEvent.ret = before.arg
           /\ before.op = "clear" => lastEvent.ret = NULL

ClaimedToRoundTrip(e, a) == Keeps(e)

RoundTrips(e, a) == e.kind = "memory" \/ (e.hasWindow /\ Readable(a))

\* C11 as claimed: over MemoryTokenStorage and over LocalTokenStorage in a
\* browser, get() after set(s) gives s for every session s, get() after
\* clear() gives nothing, and get() after set(s1); set(s2) gives s2.
C11_Claimed == RoundTrip(ClaimedToRoundTrip)

\* C11, amended: the same, over LocalTokenStorage for the sessions with a
\* non-empty access token, refresh token and user id and an expiresAt that
\* is not NaN, over MemoryTokenStorage for every session.
C11_StorageRoundTrip == RoundTrip(RoundTrips)

\* C11, reached: localStorage in a browser, set(s1); set(s2); get() gave s2.
C11_Witness ==
  /\ env = [kind |-> "local", hasWindow |-> TRUE]
  /\ lastEvent.op = "get"
  /\ Len(lastEvent.trail) = 2
  /\ lastEvent.trail[1].op = "set"
  /\ lastEvent.trail[2].op = "set"
  /\ lastEvent.trail[1].arg # lastEvent.trail[2].arg
  /\ Readable(lastEvent.trail[2].arg)
  /\ lastEvent.ret = lastEvent.trail[2].arg

\* C12 as claimed: get() never gives a session without a non-empty access
\* token, refresh token and user id, over either implementation.
C12_Claimed ==
  /\ LET a == StorageGet(env, storage)
     IN a # NULL
        => ~Falsy(AccessTokenOf(a)) /\ ~Falsy(RefreshTokenOf(a)) /\ ~Falsy(UserIdOf(a))
  /\ (lastEvent.op = "get" /\ lastEvent.ret # NULL)
     => /\ ~Falsy(AccessTokenOf(lastEvent.ret))
        /\ ~Falsy(RefreshTokenOf(lastEvent.ret))
        /\ ~Falsy(UserIdOf(lastEvent.ret))

\* The step acquired tokens: a handleCallback that returned a session, or a
\* refresh() answered 2xx.
Acquired ==
  \/ lastEvent.op = "handleCallback" /\ lastEvent.ret # NULL
  \/ lastEvent.op = "refresh" /\ lastEvent.sent /\ lastEvent.outcome = "ok"

AcquiredTokens ==
  IF lastEvent.op = "handleCallback" THEN lastEvent.ret.tokens ELSE lastEvent.ret

\* The timer state is that of one single-shot timer armed at time t to fire
\* after delay when delay > 0, and of no timer pending otherwise.
ArmedFor(tm, t, delay) ==
  IF delay > 0
  THEN \E timer \in tm.pending :
         /\ tm.pending = {timer}
         /\ tm.handle = timer.id
         /\ timer.fireAt = t + delay
  ELSE tm.pending = {}

\* C13: on every acquisition of tokens with autoRefresh enabled, for every
\* configured refreshThreshold >= 0, with delay = expiresAt - now -
\* refreshThreshold * 1000 one timer is armed to fire after delay when
\* delay > 0, and no timer is pending when delay <= 0.
C13_Claimed ==
  (Acquired /\ config.autoRefresh)
  => ArmedFor(timers, lastEvent.at,
              AcquiredTokens.expiresAt - lastEvent.at - config.refreshThreshold * 1000)

\* C14: a rejected send of HttpClient.fetch reaches the caller and is not
\* retried.  When the first send rejects, fetch returns the rejection with
\* one request sent, no refresh called, and storage, timer and the refresh
\* calls in flight as they were; when the retry rejects, the caller gets
\* that rejection, not the 401 of the first response.
C14_RejectionPropagates ==
  /\ [][(lastEvent'.op = "fetchResponse" /\ lastEvent'.outcome = Rejected)
        => /\ fetchDone' # NULL
           /\ fetchDone'.result = Rejected
           /\ fetchDone'.refreshes = 0
           /\ Len(fetchDone'.sent) = 1
           /\ httpCall' = Idle
           /\ storage' = storage
           /\ timers' = timers
           /\ refreshCalls' = refreshCalls]_vars
  /\ []((lastEvent.op = "fetchRetryResponse" /\ lastEvent.outcome = Rejected)
        => /\ fetchDone # NULL
           /\ fetchDone.result = Rejected
           /\ fetchDone.result # fetchDone.first
           /\ Len(fetchDone.sent) = 2
           /\ httpCall = Idle)

\* C14, reached: the retry after a 401 and a refresh was rejected, and the
\* caller got the rejection.
C14_Witness ==
  /\ lastEvent.op = "fetchRetryResponse"
  /\ lastEvent.outcome = Rejected
  /\ fetchDone # NULL
  /\ fetchDone.first = Response(1, Unauthorized)
  /\ fetchDone.refreshes = 1
  /\ fetchDone.result = Rejected

\* C15: refresh() called while storage.get() gives no session, or one
\* without refresh token, throws before sending anything: no request to
\* /auth/refresh is added to those in flight, and storage and timer are left
\* as they were (the timer that made the call has gone, being single-shot).
\* It throws so only then.
C15_RefreshWithoutTokenThrows ==
  [][/\ Falsy(RefreshTokenOf(Stored))
        => /\ lastEvent'.op # "refreshSent"
           /\ \A call \in BagToSet(refreshCalls') :
                CopiesIn(call, refreshCalls') <= CopiesIn(call, refreshCalls)
           /\ (lastEvent'.op = "fetchResponse" /\ fetchDone' # NULL
                 /\ fetchDone'.refreshes = 1)
              => /\ fetchDone'.refreshThrew
                 /\ storage' = storage
                 /\ timers' = timers
     /\ (lastEvent'.op = "refresh" /\ ~lastEvent'.sent)
        => /\ Falsy(RefreshTokenOf(Stored))
           /\ lastEvent'.threw
           /\ refreshCalls' = refreshCalls
           /\ storage' = storage
           /\ timers'.handle = timers.handle
           /\ timers'.pending \subseteq timers.pending
           /\ lastEvent'.caller = "manual" => timers' = timers]_vars

\* C15, reached: refreshToken() threw with nothing stored, a timer pending.
C15_Witness ==
  /\ lastEvent.op = "refresh"
  /\ lastEvent.caller = "manual"
  /\ ~lastEvent.sent
  /\ lastEvent.threw
  /\ Stored = NULL
  /\ timers.pending # {}
  /\ refreshCalls = EmptyBag

\* The record the storage holds, valid or not: MemoryTokenStorage.auth, or
\* the document under STORAGE_KEY
Held(e, st) ==
  IF e.kind = "memory" THEN st.auth
  ELSE IF st.item = NULL THEN NULL ELSE JsonParse(st.item)

\* C16: when refresh() has received a 2xx response the storage holds the
\* user the call read when it started together with the new token pair
\* (access_token and refresh_token of the response, expiresAt = time of
\* receipt + expires_in * 1000); refresh() returns that pair; and with
\* autoRefresh on the timer is the one setupAutoRefresh arms for the new
\* expiresAt.
C16_RefreshStoresNewTokens ==
  (lastEvent.op = "refresh" /\ lastEvent.sent /\ lastEvent.outcome = "ok")
  => LET data == lastEvent.response.data
         pair == [accessToken |-> data.access_token,
                  refreshToken |-> data.refresh_token,
                  expiresAt |-> lastEvent.at + data.expires_in * 1000]
     IN /\ ~lastEvent.threw
        /\ lastEvent.ret = pair
        /\ Held(env, storage) = [tokens |-> pair, user |-> lastEvent.user]
        /\ ~Falsy(pair.accessToken) => Stored = [tokens |-> pair, user |-> lastEvent.user]
        /\ config.autoRefresh
           => ArmedFor(timers, lastEvent.at,
                       pair.expiresAt - lastEvent.at - config.refreshThreshold * 1000)

\* C16, reached: a refresh() of U1's session, answered 2xx after time has
\* passed, stored the pair A3/R3 and armed the timer.
C16_Witness ==
  /\ lastEvent.op = "refresh"
  /\ lastEvent.sent
  /\ lastEvent.outcome = "ok"
  /\ lastEvent.hadSession
  /\ lastEvent.at > 0
  /\ lastEvent.user.id = "U1"
  /\ Stored # NULL
  /\ Stored.user.id = "U1"
  /\ Stored.tokens.accessToken = "A3"
  /\ Stored.tokens.refreshToken = "R3"
  /\ timers.pending # {}

\* The depositions of instance i of the mock
DepositionsOf(i) == mock.depositions[i]

\* dep is as create(c) makes it under srn
Fresh(dep, srn, c) ==
  /\ dep # NULL
  /\ dep.srn = srn
  /\ dep.convention_srn = c
  /\ dep.status = "draft"
  /\ dep.files = <<>>
  /\ dep.metadata = <<>>
  /\ dep.record_srn = NullStr

\* C17: create(c) resolves with {srn} for every convention SRN c, a mock
\* convention or not, and leaves under srn a deposition with that srn,
\* convention_srn = c, status 'draft', no files, no metadata and record_srn
\* null, which a get(srn) that follows returns; get(s) resolves exactly for
\* the keys of the instance it is called on, and a key comes only from a
\* create on that instance, which returns it.
C17_CreateThenGet ==
  /\ [](lastEvent.op = "create"
        => /\ ~lastEvent.threw
           /\ Fresh(MapGet(DepositionsOf(lastEvent.inst), lastEvent.ret.srn),
                    lastEvent.ret.srn, lastEvent.arg)
           /\ get(DepositionsOf(lastEvent.inst), lastEvent.ret.srn).ret
                = DepositionsOf(lastEvent.inst)[lastEvent.ret.srn])
  /\ [](lastEvent.op = "get"
        => /\ lastEvent.threw <=> lastEvent.arg \notin DOMAIN DepositionsOf(lastEvent.inst)
           /\ ~lastEvent.threw
              => /\ lastEvent.ret = DepositionsOf(lastEvent.inst)[lastEvent.arg]
                 /\ lastEvent.ret.srn = lastEvent.arg)
  /\ [][/\ \A i \in Instances :
             DOMAIN mock'.depositions[i]
               = DOMAIN mock.depositions[i]
                   \cup (IF lastEvent'.op = "create" /\ lastEvent'.inst = i
                         THEN {lastEvent'.ret.srn} ELSE {})
        /\ (lastEvent.op = "create" /\ lastEvent'.op = "get"
              /\ lastEvent'.inst = lastEvent.inst /\ lastEvent'.arg = lastEvent.ret.srn)
           => /\ ~lastEvent'.threw
              /\ Fresh(lastEvent'.ret, lastEvent.ret.srn, lastEvent.arg)]_vars

\* C17, reached: the second instance, after a create on the first, created
\* a deposition for a convention that is no mock convention, and get
\* returned it.
C17_Witness ==
  /\ lastEvent.op = "get"
  /\ lastEvent.inst = 2
  /\ lastEvent.arg = SrnOf(2)
  /\ ~lastEvent.threw
  /\ Fresh(lastEvent.ret, SrnOf(2), "urn:osa:localhost:conv:nonexistent")
  /\ SrnOf(1) \in DOMAIN DepositionsOf(1)

\* srn is the SRN of no mock convention
UnknownConvention(srn) ==
  \A i \in DOMAIN MOCK_CONVENTIONS : MOCK_CONVENTIONS[i].srn # srn

\* C18: getConvention and downloadTemplate reject for an SRN that is not one
\* of the mock conventions, get rejects for an SRN that is no key of the
\* instance (none that a create on it returned), and none of the three
\* changes the depositions or the counter.
C18_UnknownRejected ==
  [][/\ (lastEvent'.op \in {"getConvention", "downloadTemplate"}
          /\ UnknownConvention(lastEvent'.arg))
        => lastEvent'.threw /\ mock' = mock
     /\ (lastEvent'.op = "get"
          /\ lastEvent'.arg \notin DOMAIN mock.depositions[lastEvent'.inst])
        => lastEvent'.threw /\ mock' = mock
     /\ lastEvent'.op \in {"getConvention", "downloadTemplate", "get"}
        => mock' = mock]_vars

\* C18, reached: get rejected on the second instance for the SRN of a
\* deposition of the first.
C18_Witness ==
  /\ lastEvent.op = "get"
  /\ lastEvent.inst = 2
  /\ lastEvent.arg = SrnOf(1)
  /\ lastEvent.threw
  /\ SrnOf(1) \in DOMAIN DepositionsOf(1)

\* C19: submit(srn) always resolves; for a deposition of the instance it
\* sets status to 'in_validation' and leaves files, convention_srn and every
\* other deposition as they were, and for another SRN it changes nothing;
\* no step of the mock takes a deposition out of 'in_validation'.
C19_SubmitIsFinal ==
  /\ [][lastEvent'.op = "submit"
        => LET i == lastEvent'.inst
               srn == lastEvent'.arg
               before == MapGet(mock.depositions[i], srn)
               after == MapGet(mock'.depositions[i], srn)
           IN /\ ~lastEvent'.threw
              /\ IF before = NULL THEN mock' = mock
                 ELSE /\ after.status = "in_validation"
                      /\ after.files = before.files
                      /\ after.convention_srn = before.convention_srn
                      /\ after.srn = before.srn
                      /\ mock'.depositionCounter = mock.depositionCounter
                      /\ \A j \in Instances :
                           \A other \in DOMAIN mock'.depositions[j] :
                             (j # i \/ other # srn)
                             => mock'.depositions[j][other] = MapGet(mock.depositions[j], other)]_vars
  /\ [][\A i \in Instances :
          \A srn \in DOMAIN mock.depositions[i] :
            mock.depositions[i][srn].status = "in_validation"
            => /\ srn \in DOMAIN mock'.depositions[i]
               /\ mock'.depositions[i][srn].status = "in_validation"]_vars

\* C19, reached: a deposition holding a file was submitted.
C19_Witness ==
  /\ lastEvent.op = "submit"
  /\ ~lastEvent.threw
  /\ MapGet(DepositionsOf(lastEvent.inst), lastEvent.arg) # NULL
  /\ DepositionsOf(lastEvent.inst)[lastEvent.arg].status = "in_validation"
  /\ Len(DepositionsOf(lastEvent.inst)[lastEvent.arg].files) = 1

\* The step is a refresh() that found a refresh token and sent its request
RefreshSent ==
  \/ lastEvent'.op = "refreshSent"
  \/ lastEvent'.op = "fetchResponse" /\ httpCall'.pc = "awaitRefresh"

\* Who called the refresh() of this step
RefreshCaller == IF lastEvent'.op = "refreshSent" THEN lastEvent'.caller ELSE "http"

\* C20, as claimed: at most one refresh request is in flight at any time.
C20_Claimed == BagCardinality(refreshCalls) <= 1

\* C20: refresh() does not look at the calls in flight.  Every refresh()
\* that finds a stored refresh token, whoever calls it (timer, 401 retry or
\* application) and however many calls await their response, sends its own
\* POST /auth/refresh with the refresh token stored at that moment; the
\* settling of one call takes that call alone out of those in flight and
\* leaves the others waiting for their own responses.
C20_EachRefreshSendsItsOwn ==
  [][/\ RefreshSent
        => /\ ~Falsy(RefreshTokenOf(Stored))
           /\ refreshCalls'
                = refreshCalls
                    (+) SetToBag({[caller |-> RefreshCaller, user |-> Stored.user,
                                   sentToken |-> RefreshTokenOf(Stored)]})
           /\ storage' = storage
     /\ (lastEvent'.op = "refresh" /\ lastEvent'.sent)
        => /\ BagCardinality(refreshCalls') = BagCardinality(refreshCalls) - 1
           /\ \A call \in BagToSet(refreshCalls') : BagIn(call, refreshCalls)]_vars

\* C20, reached: the application called refreshToken() while the refresh
\* of the timer awaited its response, and a second request went out.
C20_Witness ==
  /\ lastEvent.op = "refreshSent"
  /\ lastEvent.caller = "manual"
  /\ BagCardinality(refreshCalls) = 2
  /\ \E call \in BagToSet(refreshCalls) : call.caller = "timer"

\* The step settles a refresh() right after another refresh() settled that
\* had sent the same refresh token: the two overlapped, the server accepted
\* the one named ok and rejected the other, and no call is left in flight.
OverlappingPairSettled(okLast) ==
  /\ lastEvent.op = "refresh" /\ lastEvent.sent
  /\ lastEvent'.op = "refresh" /\ lastEvent'.sent
  /\ lastEvent'.sentToken = lastEvent.sentToken
  /\ lastEvent.outcome = (IF okLast THEN "status" ELSE "ok")
  /\ lastEvent'.outcome = (IF okLast THEN "ok" ELSE "status")
  /\ refreshCalls' = EmptyBag

\* C21 as claimed: when two overlapping refresh() calls that sent the same
\* refresh token have completed, one accepted and one rejected, nothing is
\* stored, whichever response came first.
C21_Claimed ==
  [][(OverlappingPairSettled(TRUE) \/ OverlappingPairSettled(FALSE))
     => Held(env', storage') = NULL]_vars

\* C21, amended: of two overlapping refresh() calls that sent the same
\* refresh token, one accepted and one rejected, the response processed last
\* decides.  Rejected last: the storage is empty.  Accepted last: the
\* storage holds the new token pair with the user that call read when it
\* started, although the rejection had cleared it.
C21_LastResponseDecides ==
  [][/\ OverlappingPairSettled(FALSE)
        => storage' = EmptyStorage /\ StorageGet(env', storage') = NULL
     /\ OverlappingPairSettled(TRUE)
        => /\ storage = EmptyStorage
           /\ ~lastEvent'.threw
           /\ Keeps(env)
              => Held(env', storage')
                   = [tokens |-> lastEvent'.ret, user |-> lastEvent'.user]]_vars

\* C21, reached: the rejection of one call had cleared the storage, the
\* acceptance of the other came last, and U1's session is stored again with
\* the pair A3/R3.
C21_Witness ==
  /\ lastEvent.op = "refresh"
  /\ lastEvent.sent
  /\ lastEvent.outcome = "ok"
  /\ ~lastEvent.hadSession
  /\ refreshFailed
  /\ refreshCalls = EmptyBag
  /\ Stored # NULL
  /\ Stored.user.id = "U1"
  /\ Stored.tokens.refreshToken = "R3"

\* The step is the callback of the auto-refresh timeout
TimerFired ==
  /\ lastEvent'.op \in {"refresh", "refreshSent"}
  /\ lastEvent'.caller = "timer"
  /\ lastEvent'.op = "refresh" => ~lastEvent'.sent

\* C22: at most one auto-refresh timeout is pending, and it is the one
\* refreshTimer names; a step that arms a timeout leaves no other pending;
\* and when the timeout fires none is left pending, so no firing follows
\* that was armed before it.
C22_AtMostOneTimer ==
  /\ [](/\ Cardinality(timers.pending) <= 1
        /\ \A t \in timers.pending : t.id = timers.handle)
  /\ [][/\ timers'.pending \ timers.pending # {}
           => /\ Cardinality(timers'.pending) = 1
              /\ lastEvent'.op \in {"handleCallback", "refresh"}
        /\ TimerFired
           => /\ Cardinality(timers.pending) = 1
              /\ timers'.pending = {}]_vars

\* C22, reached: a refresh() answered 2xx while another was in flight armed
\* a timeout in place of the one that was pending.
C22_Witness ==
  /\ lastEvent.op = "refresh"
  /\ lastEvent.sent
  /\ lastEvent.outcome = "ok"
  /\ lastEvent.hadTimer
  /\ refreshCalls # EmptyBag
  /\ Cardinality(timers.pending) = 1
  /\ \E t \in timers.pending : t.fireAt = lastEvent.at + 100000

\* The fetch in flight read a refresh token when it started, the refresh
\* callback is wired, and the storage has been cleared since
OrphanedFetch ==
  /\ httpCall.pc = "await1"
  /\ ~Falsy(RefreshTokenOf(httpCall.stored))
  /\ refreshFn
  /\ storage = EmptyStorage

\* C23: logout() leaves a fetch in flight as it is.  When the first response
\* of a fetch arrives after the storage was cleared, the caller gets that
\* response; if it is a 401, fetch calls refresh(), which throws for want of
\* a refresh token without sending POST /auth/refresh, the storage stays
\* empty, nothing is sent a second time and the caller gets the 401.
C23_OrphanedResponseDelivered ==
  [][/\ lastEvent'.op \in {"logout", "logoutSent"} => httpCall' = httpCall
     /\ (OrphanedFetch /\ lastEvent'.op = "fetchResponse"
           /\ lastEvent'.outcome # Rejected)
        => /\ httpCall' = Idle
           /\ fetchDone' # NULL
           /\ fetchDone'.result = lastEvent'.outcome
           /\ Len(fetchDone'.sent) = 1
           /\ refreshCalls' = refreshCalls
           /\ storage' = EmptyStorage
           /\ timers' = timers
           /\ lastEvent'.outcome.status = Unauthorized
              => fetchDone'.refreshes = 1 /\ fetchDone'.refreshThrew]_vars

\* C23, reached: a fetch that had sent U1's token got its 401 after
\* logout() had cleared the storage, and returned it.
C23_Witness ==
  /\ lastEvent.op = "fetchResponse"
  /\ fetchDone # NULL
  /\ fetchDone.storedRefreshToken = "R1"
  /\ fetchDone.wired
  /\ fetchDone.first = Response(1, Unauthorized)
  /\ fetchDone.result = Response(1, Unauthorized)
  /\ fetchDone.refreshes = 1
  /\ fetchDone.refreshThrew
  /\ storage = EmptyStorage
  /\ ~refreshFailed

\* The refresh() the timer callback called has thrown in the step just taken
TimerRefreshFailed ==
  /\ lastEvent.op = "refresh"
  /\ lastEvent.caller = "timer"
  /\ lastEvent.threw

Whole(h) ==
  /\ DOMAIN h = {"tokens", "user"}
  /\ h.user # NULL
  /\ h.tokens # NULL
  /\ DOMAIN h.user = {"id", "displayName", "externalId"}
  /\ DOMAIN h.tokens = {"accessToken", "refreshToken", "expiresAt"}

\* C25: the storage holds nothing, or a record with a user and a token pair
\* (accessToken, refreshToken, expiresAt).  The storage changes only in
\* handleCallback, refresh and logout; each change either empties it or
\* puts in the whole record of that call, user and tokens together; and no
\* step of HttpClient.fetch itself changes it.
C25_StoredSessionWhole ==
  /\ [](Held(env, storage) = NULL \/ Whole(Held(env, storage)))
  /\ [][/\ storage' # storage
           => \/ /\ lastEvent'.op \in {"refresh", "logout"}
                 /\ lastEvent'.threw \/ lastEvent'.op = "logout"
                 /\ storage' = EmptyStorage
              \/ /\ lastEvent'.op = "handleCallback"
                 /\ Held(env', storage')
                      = [tokens |-> lastEvent'.ret.tokens, user |-> lastEvent'.ret.user]
              \/ /\ lastEvent'.op = "refresh"
                 /\ ~lastEvent'.threw
                 /\ Held(env', storage')
                      = [tokens |-> lastEvent'.ret, user |-> lastEvent'.user]
        /\ lastEvent'.op \in {"fetch", "fetchResponse", "fetchRetryResponse"}
           => storage' = storage]_vars

\* C25, reached: a fetch was retried after its refresh had rewritten U1's
\* session, and the storage holds U1 with the pair A3/R3.
C25_Witness ==
  /\ lastEvent.op = "fetchRetryResponse"
  /\ Held(env, storage) # NULL
  /\ Whole(Held(env, storage))
  /\ Held(env, storage).user.id = "U1"
  /\ Held(env, storage).tokens.accessToken = "A3"
  /\ Held(env, storage).tokens.refreshToken = "R3"

\* C26 as claimed: from the return of logout() on, until a handleCallback,
\* nothing is stored and no auto-refresh timer is pending, whatever step
\* comes next, the 2xx answer to a refresh() still in flight included.
C26_Claimed ==
  [][(lastEvent.op = "logout" /\ lastEvent'.op # "handleCallback")
     => /\ Held(env', storage') = NULL
        /\ timers'.pending = {}]_vars

\* C27 as claimed: whenever nothing is stored, no auto-refresh timer is
\* pending (taken where the storage keeps what is set: in memory, or in
\* localStorage inside a browser).
C27_Claimed == (Keeps(env) /\ Held(env, storage) = NULL) => timers.pending = {}

\* C27, amended: a refresh() answered with a status that is not ok empties
\* the storage and leaves the timer as it was, pending if it was pending;
\* when a timer fires with nothing readable in storage, its refresh()
\* throws without sending a request, the callback swallows the error, and
\* storage and the refresh calls in flight stay as they were.
C27_FailedRefreshLeavesTimer ==
  [][/\ (lastEvent'.op = "refresh" /\ lastEvent'.sent /\ lastEvent'.outcome = "status")
        => /\ storage' = EmptyStorage
           /\ timers' = timers
     /\ (TimerFired /\ Stored = NULL)
        => /\ lastEvent'.op = "refresh"
           /\ ~lastEvent'.sent
           /\ lastEvent'.threw
           /\ ~lastEvent'.surfaced
           /\ refreshCalls' = refreshCalls
           /\ storage' = storage]_vars

\* C27, reached: a refresh() answered with a status that is not ok emptied
\* storage that can keep a session, and the timer armed by the callback is
\* still pending.
C27_Witness ==
  /\ lastEvent.op = "refresh"
  /\ lastEvent.sent
  /\ lastEvent.outcome = "status"
  /\ lastEvent.hadSession
  /\ lastEvent.hadTimer
  /\ Keeps(env)
  /\ storage = EmptyStorage
  /\ timers.pending # {}

\* C28 as claimed: a refresh() that was in flight when handleCallback stored
\* a session leaves that session alone when it settles: the storage (one
\* that keeps what is set) still holds what handleCallback returned.
C28_Claimed ==
  [][(/\ lastEvent.op = "handleCallback"
      /\ lastEvent.ret # NULL
      /\ Keeps(env)
      /\ lastEvent'.op = "refresh"
      /\ lastEvent'.sent)
     => Held(env', storage')
          = [tokens |-> lastEvent.ret.tokens, user |-> lastEvent.ret.user]]_vars

\* C29 as claimed: with autoRefresh on, a pending timer and a stored session
\* agree: the timer fires at the stored expiresAt minus the refresh
\* threshold of the configuration, which is before the token expires.
C29_Claimed ==
  (config.autoRefresh /\ Held(env, storage) # NULL)
  => \A t \in timers.pending :
       /\ t.fireAt = Held(env, storage).tokens.expiresAt
                       - config.refreshThreshold * MsPerSecond
       /\ t.fireAt <= Held(env, storage).tokens.expiresAt

\* Every SRN under which some instance holds a deposition
AllSrns == UNION {DOMAIN mock.depositions[j] : j \in Instances}

\* C30: every create, on whichever instance and in whatever order the
\* delays of the calls expire, returns an SRN that no create returned
\* before: the SRN of the next value of the shared counter, under which no
\* instance holds a deposition; it leaves every deposition there was as it
\* was; and the SRNs of different counter values differ, so that the
\* instances together hold as many SRNs as creates were made.
C30_SrnsNeverRepeat ==
  /\ [](/\ \A a, b \in 1..(MaxCreates + 1) : a # b => SrnOf(a) # SrnOf(b)
        /\ AllSrns = {SrnOf(k) : k \in 1..mock.depositionCounter}
        /\ Cardinality(AllSrns) = mock.depositionCounter
        /\ \A i, j \in Instances :
             i # j => DOMAIN mock.depositions[i] \cap DOMAIN mock.depositions[j] = {})
  /\ [][lastEvent'.op = "create"
        => /\ ~lastEvent'.threw
           /\ lastEvent'.ret.srn \notin AllSrns
           /\ lastEvent'.ret.srn = SrnOf(mock.depositionCounter + 1)
           /\ mock'.depositionCounter = mock.depositionCounter + 1
           /\ \A j \in Instances :
                \A srn \in DOMAIN mock.depositions[j] :
                  /\ srn \in DOMAIN mock'.depositions[j]
                  /\ mock'.depositions[j][srn] = mock.depositions[j][srn]]_vars

\* C30, reached: after a create on the first instance, a create on the
\* second returned another SRN, and each instance holds its own deposition.
C30_Witness ==
  /\ lastEvent.op = "create"
  /\ lastEvent.inst = 2
  /\ lastEvent.ret.srn = SrnOf(2)
  /\ DOMAIN DepositionsOf(1) = {SrnOf(1)}
  /\ DOMAIN DepositionsOf(2) = {SrnOf(2)}
  /\ DepositionsOf(1)[SrnOf(1)].status = "draft"

====
